---- MODULE Spec2Model ----
(***************************************************************************)
(* Document loader of core/src/core/document_loader: per-page text         *)
(* extraction (PDF, DOCX, PPTX, plain text), the format router, and the    *)
(* page rasterizer.  Text is modelled as sequences of one-character        *)
(* strings so that strip/split/upper/join are computed, not assumed.       *)
(***************************************************************************)
EXTENDS Integers, Sequences, FiniteSets, TLC

(***************************************************************************)
(* Bounds of the model.                                                    *)
(***************************************************************************)
MaxPages == 3
MaxCallWorkers == 3
MaxParas == 4
MaxSlides == 3
MaxLen == 5

(***************************************************************************)
(* Python str operations on sequences of characters.                       *)
(***************************************************************************)
\* str.isspace() characters that occur in the model's alphabet
Whitespace == {" ", "\n", "\f", "\t"}

RECURSIVE LStrip(_)
LStrip(s) ==
    IF s = <<>> THEN <<>>
    ELSE IF Head(s) \in Whitespace THEN LStrip(Tail(s)) ELSE s

RECURSIVE RStrip(_)
RStrip(s) ==
    IF s = <<>> THEN <<>>
    ELSE IF s[Len(s)] \in Whitespace THEN RStrip(SubSeq(s, 1, Len(s) - 1)) ELSE s

\* str.strip() with no argument
Strip(s) == RStrip(LStrip(s))

\* does marker m occur in s at position i (1-indexed)
MatchesAt(s, m, i) ==
    /\ i >= 1
    /\ i + Len(m) - 1 <= Len(s)
    /\ SubSeq(s, i, i + Len(m) - 1) = m

\* the Python expression `m in s`
Contains(m, s) == \E i \in 1..(Len(s) + 1) : MatchesAt(s, m, i)

\* index of the first occurrence of m in s at or after position i, 0 if none
RECURSIVE FindFrom(_, _, _)
FindFrom(s, m, i) ==
    IF i + Len(m) - 1 > Len(s) THEN 0
    ELSE IF MatchesAt(s, m, i) THEN i
    ELSE FindFrom(s, m, i + 1)

\* str.split(m) for a non-empty separator: non-overlapping, left to right
RECURSIVE Split(_, _)
Split(s, m) ==
    LET i == FindFrom(s, m, 1) IN
    IF i = 0 THEN <<s>>
    ELSE <<SubSeq(s, 1, i - 1)>> \o Split(SubSeq(s, i + Len(m), Len(s)), m)

\* sep.join(parts)
RECURSIVE Join(_, _)
Join(parts, sep) ==
    IF parts = <<>> THEN <<>>
    ELSE IF Len(parts) = 1 THEN parts[1]
    ELSE parts[1] \o sep \o Join(Tail(parts), sep)

UpperChar(c) ==
    CASE c = "a" -> "A" [] c = "b" -> "B" [] c = "e" -> "E" [] c = "g" -> "G"
      [] c = "k" -> "K" [] c = "p" -> "P" [] c = "r" -> "R" [] c = "x" -> "X"
      [] OTHER -> c

LowerChar(c) ==
    CASE c = "A" -> "a" [] c = "B" -> "b" [] c = "E" -> "e" [] c = "G" -> "g"
      [] c = "K" -> "k" [] c = "P" -> "p" [] c = "R" -> "r" [] c = "X" -> "x"
      [] c = "N" -> "n" [] c = "D" -> "d" [] c = "F" -> "f" [] c = "T" -> "t"
      [] c = "M" -> "m" [] c = "C" -> "c" [] c = "Y" -> "y" [] c = "Z" -> "z"
      [] c = "O" -> "o"
      [] OTHER -> c

\* str.upper() / str.lower()
Upper(s) == [i \in 1..Len(s) |-> UpperChar(s[i])]
Lower(s) == [i \in 1..Len(s) |-> LowerChar(s[i])]

\* dict assignment d[k] = v
DictSet(d, k, v) == (k :> v) @@ d

EmptyDict == <<>>

(***************************************************************************)
(* State.                                                                  *)
(***************************************************************************)
VARIABLES
    callee,          \* the extractor that is running: "none", "pdf", "docx", "pptx", "txt"
    ex_pc,           \* position of the running extractor
    page_text,       \* the extractor's page_text dict
    ex_exc,          \* the exception the extractor raised, "none" if none
    pdf_doc,         \* the PDF file: [openable, pages], page = [text, throws]
    max_workers,     \* the max_workers argument
    page_count,      \* len(doc) read by extract_text_from_pdf
    actual_workers,  \* size of the ThreadPoolExecutor
    futures,         \* submitted futures, in submission order
    yielded,         \* futures as_completed has yielded, in the order it yielded them
    history,         \* page maps returned by earlier calls on the same document
    docx_doc,        \* the Word file: doc.paragraphs, each [text, style]
    para_idx,        \* position of the paragraph loop (1-indexed)
    current_page,    \* extract_text_from_docx: current_page
    current_text,    \* extract_text_from_docx: current_text
    presentation,    \* the PowerPoint file: presentation.slides, each a sequence of shapes
    slide_idx,       \* position of the slide loop (1-indexed)
    content,         \* the text file's content
    document_path,   \* convert_document_to_text: [exists, suffix] of the path
    supported_file_types,  \* the SUPPORTED_FILE_TYPES allowlist
    r_pc,            \* position of convert_document_to_text
    r_exc,           \* the exception convert_document_to_text raised
    r_result,        \* the map convert_document_to_text returned
    tmpdir,          \* the TemporaryDirectory: "none", "exists", "deleted"
    r_log,           \* calls made by convert_document_to_text, in order
    img_path,        \* convert_page_to_image: [suffix, stem_is_output] of the path
    img_page_num,    \* the page_num / slide_num argument
    img_doc,         \* the PDF to render: [n_pages, fitz_opens, fitz_renders, poppler_ok]
    host,            \* the converters on the host: [libreoffice, unoconv, convert_ok, produced]
    img_pc,          \* position of convert_page_to_image
    img_result,      \* the string convert_page_to_image returned
    img_exc,         \* the exception convert_page_to_image raised
    img_calls,       \* renderer and subprocess calls made, in order, with their results
    img_tmpdir,      \* the TemporaryDirectory of the PPTX path: "none", "exists", "deleted"
    use_libreoffice, \* convert_pptx_slide_to_image: use_libreoffice
    use_unoconv,     \* convert_pptx_slide_to_image: use_unoconv
    img_handle,      \* the handle convert_pdf_page_to_image_fitz opened: "none", "open", "closed"
    bulk_path,       \* convert_document_pages_to_images: [suffix] of the path
    bulk_doc,        \* the PDF to convert: [n_pages, fitz_opens, poppler_ok]
    bulk_max_workers,    \* the max_workers argument
    bulk_pc,         \* position of convert_document_pages_to_images
    bulk_page_count, \* convert_pdf_to_images_fitz: page_count
    bulk_actual_workers, \* convert_pdf_to_images_fitz: actual_workers
    bulk_futures,    \* the page tasks submitted to the process pool
    bulk_yielded,    \* the futures as_completed has yielded
    bulk_result,     \* convert_pdf_to_images_fitz: result
    bulk_fitz_exc,   \* the exception raised inside convert_pdf_to_images_fitz
    bulk_fitz_outcome,   \* how convert_pdf_to_images_fitz ended: "returned" or "raised"
    bulk_calls,      \* the converters convert_document_pages_to_images called
    bulk_return,     \* the map convert_document_pages_to_images returned
    sp_content,      \* split_text_into_pages: content
    sp_max_chars,    \* split_text_into_pages: max_chars_per_page
    sp_pages,        \* the list split_text_into_pages returned
    sp_pc            \* position of the split_text_into_pages call

exVars == <<callee, ex_pc, page_text, ex_exc>>
pdfVars == <<pdf_doc, max_workers, page_count, actual_workers, futures, yielded, history>>
docxVars == <<docx_doc, para_idx, current_page, current_text>>
pptxVars == <<presentation, slide_idx>>
txtVars == <<content>>
routerVars == <<document_path, supported_file_types, r_pc, r_exc, r_result, tmpdir, r_log>>
imgVars == <<img_path, img_page_num, img_doc, host, img_pc, img_result, img_exc, img_calls,
             img_tmpdir, use_libreoffice, use_unoconv, img_handle>>
bulkVars == <<bulk_path, bulk_doc, bulk_max_workers, bulk_pc, bulk_page_count,
              bulk_actual_workers, bulk_futures, bulk_yielded, bulk_result, bulk_fitz_exc,
              bulk_fitz_outcome, bulk_calls, bulk_return>>
splitVars == <<sp_content, sp_max_chars, sp_pages, sp_pc>>

VARIABLES
    kernel_max_wait,   \* Kernel.await_kernel_execution: max_wait
    kernel_pc,         \* "idle", "loop", "check", "sleep", "returned", "raised"
    kernel_statuses,   \* resp.status_code of every requests.get so far, in order
    kernel_sleeps,     \* number of time.sleep(1) calls so far
    kernel_exc         \* the exception that left await_kernel_execution, or "none"

kernelVars == <<kernel_max_wait, kernel_pc, kernel_statuses, kernel_sleeps, kernel_exc>>

VARIABLES
    streaming_response_generator,  \* the tuples the agent's generator will yield, in order
    stream_pos,                    \* how many of them the for loop has consumed
    stream_pc,                     \* "idle", "created", "loop", "done"
    completion_id,                 \* line 87: str(uuid.uuid4()), "none" before it is drawn
    last_pipeline_interactions,    \* line 90/98
    last_usage_metrics,            \* line 91/99
    stream_chunks                  \* the chunks yielded to the consumer so far, in order

streamVars == <<streaming_response_generator, stream_pos, stream_pc, completion_id,
                last_pipeline_interactions, last_usage_metrics, stream_chunks>>

VARIABLES
    retry_count,         \* retry_on_integrity_error: retry_count
    retry_pc,            \* "idle", "decorating", "loop", "except", "returned", "raised", "rejected"
    attempt,             \* inner: attempt
    retry_invocations,   \* number of calls of the wrapped method f so far
    retry_rollbacks,     \* number of sess.rollback() calls so far
    retry_result,        \* what inner returned, or "none"
    retry_exc            \* the exception that left the decorator or inner, or "none"

retryVars == <<retry_count, retry_pc, attempt, retry_invocations, retry_rollbacks,
               retry_result, retry_exc>>

VARIABLES
    chat_messages,       \* the message table: rows in creation order, uuid = position
    chat_pc,             \* per request: "idle", "request", "prompt_created", "exchange_created",
                         \*   "task_added", "completed", "except", "done"
    chat_response_uuid,  \* per request: response_message.uuid, 0 before it exists
    chat_outcome,        \* per request: what _send_chat_agent_completion got before its update
    chat_task_exc        \* per request: the exception that left the background task, or "none"

chatVars == <<chat_messages, chat_pc, chat_response_uuid, chat_outcome, chat_task_exc>>

VARIABLES
    db_local,        \* the rows committed in the local SQLite file self._db_path
    db_persistent,   \* the persistent copy: [exists, rows]
    sess_pc,         \* per session block: "idle", "start", "body", "exiting", "done"
    sess_checksum,   \* per session block: checksum taken at entry, "None" without download
    sess_committed,  \* per session block: whether its body committed a row
    sess_put         \* per session block: whether its exit uploaded the file

dbVars == <<db_local, db_persistent, sess_pc, sess_checksum, sess_committed, sess_put>>

VARIABLES
    persistence_enabled,  \* DBCtx._persistence_fs is set
    auth_local,           \* the local database file: [user, identity], whether the row exists
    auth_persistent,      \* the persistent copy of the file: [exists, rows]
    auth_pc,              \* per request: where get_auth_ctx stands
    auth_checksum,        \* per request: checksum taken when its open session block was entered
    auth_found,           \* per request: what upsert_identity's first query found
    auth_exc,             \* per request: the exception that left get_auth_ctx, or "none"
    auth_sess,            \* per request: request.session["auth"], "none" or the user's context
    users_created         \* number of user rows inserted so far

authVars == <<persistence_enabled, auth_local, auth_persistent, auth_pc, auth_checksum,
              auth_found, auth_exc, auth_sess, users_created>>
appVars == <<kernelVars, streamVars, retryVars, chatVars, dbVars, authVars>>
restVars == <<bulkVars, splitVars, appVars>>
textVars == <<exVars, pdfVars, docxVars, pptxVars, txtVars, routerVars>>
loaderVars == <<textVars, imgVars, bulkVars, splitVars>>

\* what the steps of one extractor leave alone
besidesPdf == <<docxVars, pptxVars, txtVars, routerVars, imgVars, restVars>>
besidesDocx == <<pdfVars, pptxVars, txtVars, routerVars, imgVars, restVars>>
besidesPptx == <<pdfVars, docxVars, txtVars, routerVars, imgVars, restVars>>
besidesTxt == <<pdfVars, docxVars, pptxVars, routerVars, imgVars, restVars>>

Min(a, b) == IF a < b THEN a ELSE b
Max(a, b) == IF a > b THEN a ELSE b

(***************************************************************************)
(* PDF text extraction: extract_text_from_pdf and its page task.           *)
(***************************************************************************)
PdfPageTexts == {<<>>, <<"a">>, <<"b">>}

\* a page either renders to its text or makes fitz throw
PdfPageChoices ==
    {[text |-> t, throws |-> FALSE] : t \in PdfPageTexts}
        \cup {[text |-> <<"a">>, throws |-> TRUE]}

PdfDocs ==
    {[openable |-> TRUE, pages |-> p] :
        p \in UNION {[1..n -> PdfPageChoices] : n \in 0..MaxPages}}
        \cup {[openable |-> FALSE, pages |-> <<>>]}

\* _extract_pdf_page_fitz with the exception escaping instead of being caught
_extract_pdf_page_fitz_uncaught(doc, page_idx) ==
    LET page == doc.pages[page_idx + 1] IN
    IF page.throws
    THEN [raised |-> TRUE, page_num |-> page_idx + 1, text |-> <<>>]
    ELSE [raised |-> FALSE, page_num |-> page_idx + 1, text |-> page.text]

\* _extract_pdf_page_fitz returning the 0-indexed page number
_extract_pdf_page_fitz_zero_indexed(doc, page_idx) ==
    LET page == doc.pages[page_idx + 1] IN
    IF page.throws
    THEN [raised |-> FALSE, page_num |-> page_idx, text |-> <<>>]
    ELSE [raised |-> FALSE, page_num |-> page_idx, text |-> page.text]

\* the page task: (1-indexed page number, text), "" when anything throws
_extract_pdf_page_fitz(doc, page_idx) ==
    LET page == doc.pages[page_idx + 1] IN
    IF page.throws
    THEN [raised |-> FALSE, page_num |-> page_idx + 1, text |-> <<>>]
    ELSE [raised |-> FALSE, page_num |-> page_idx + 1, text |-> page.text]

\* result assembly that appends in completion order instead of keying by page
store_page_result_in_arrival_order(d, page_num, text) ==
    DictSet(d, Cardinality(DOMAIN d) + 1, text)

\* page_text[page_num] = text
store_page_result(d, page_num, text) == DictSet(d, page_num, text)

\* a pool sized by the request alone, without the cap by the page count
pool_size_uncapped(requested, pages) == requested

\* actual_workers = min(max_workers, max(1, page_count))
pool_size(requested, pages) == Min(requested, Max(1, pages))

Running == {i \in 1..Len(futures) : futures[i].state = "running"}
Finished == {i \in 1..Len(futures) : futures[i].state = "done"}
Yielded == {yielded[k] : k \in 1..Len(yielded)}

\* lines 113-117: open for the page count, size and create the pool
extract_text_from_pdf_begin ==
    /\ callee = "pdf"
    /\ ex_pc = "start"
    /\ IF ~pdf_doc.openable
       THEN /\ ex_pc' = "raised"
            /\ ex_exc' = "FileDataError"
            /\ UNCHANGED <<page_text, page_count, actual_workers>>
       ELSE LET n == Len(pdf_doc.pages)
                w == pool_size(max_workers, n) IN
            /\ page_count' = n
            /\ page_text' = EmptyDict
            /\ actual_workers' = w
            /\ IF w <= 0
               THEN ex_pc' = "raised" /\ ex_exc' = "ValueError"
               ELSE ex_pc' = "submit" /\ ex_exc' = "none"
    /\ futures' = <<>>
    /\ yielded' = <<>>
    /\ UNCHANGED <<callee, pdf_doc, max_workers, history>>
    /\ UNCHANGED besidesPdf

\* lines 118-121: executor.submit for the next page index
extract_text_from_pdf_submit ==
    /\ callee = "pdf"
    /\ ex_pc = "submit"
    /\ IF Len(futures) < page_count
       THEN /\ futures' = Append(futures,
                    [page_idx |-> Len(futures), state |-> "pending",
                     result |-> [raised |-> FALSE, page_num |-> 0, text |-> <<>>]])
            /\ ex_pc' = "submit"
       ELSE /\ ex_pc' = "collect"
            /\ UNCHANGED futures
    /\ UNCHANGED <<callee, page_text, ex_exc, pdf_doc, max_workers, page_count,
                   actual_workers, yielded, history>>
    /\ UNCHANGED besidesPdf

\* a pool thread takes the oldest queued task
worker_start(i) ==
    /\ callee = "pdf"
    /\ i \in 1..Len(futures)
    /\ futures[i].state = "pending"
    /\ \A j \in 1..(i - 1) : futures[j].state # "pending"
    /\ Cardinality(Running) < actual_workers
    /\ futures' = [futures EXCEPT ![i].state = "running"]
    /\ UNCHANGED <<exVars, pdf_doc, max_workers, page_count, actual_workers,
                   yielded, history>>
    /\ UNCHANGED besidesPdf

\* the task body runs to its end
worker_finish(i) ==
    /\ callee = "pdf"
    /\ i \in 1..Len(futures)
    /\ futures[i].state = "running"
    /\ futures' = [futures EXCEPT
            ![i].state = "done",
            ![i].result = _extract_pdf_page_fitz(pdf_doc, futures[i].page_idx)]
    /\ UNCHANGED <<exVars, pdf_doc, max_workers, page_count, actual_workers,
                   yielded, history>>
    /\ UNCHANGED besidesPdf

\* lines 122-124: as_completed yields a finished future, its result is stored
extract_text_from_pdf_collect(i) ==
    /\ callee = "pdf"
    /\ ex_pc = "collect"
    /\ i \in Finished \ Yielded
    /\ yielded' = Append(yielded, i)
    /\ LET r == futures[i].result IN
       IF r.raised
       THEN /\ ex_exc' = "PageError"
            /\ ex_pc' = "shutdown"
            /\ UNCHANGED page_text
       ELSE /\ page_text' = store_page_result(page_text, r.page_num, r.text)
            /\ UNCHANGED <<ex_exc, ex_pc>>
    /\ UNCHANGED <<callee, pdf_doc, max_workers, page_count, actual_workers,
                   futures, history>>
    /\ UNCHANGED besidesPdf

\* as_completed is exhausted
extract_text_from_pdf_collected ==
    /\ callee = "pdf"
    /\ ex_pc = "collect"
    /\ Yielded = 1..Len(futures)
    /\ ex_pc' = "shutdown"
    /\ UNCHANGED <<callee, page_text, ex_exc, pdfVars>>
    /\ UNCHANGED besidesPdf

\* leaving the with block: shutdown(wait=True), then return or re-raise
extract_text_from_pdf_end ==
    /\ callee = "pdf"
    /\ ex_pc = "shutdown"
    /\ \A i \in 1..Len(futures) : futures[i].state = "done"
    /\ ex_pc' = IF ex_exc = "none" THEN "returned" ELSE "raised"
    /\ UNCHANGED <<callee, page_text, ex_exc, pdfVars>>
    /\ UNCHANGED besidesPdf

\* the caller keeps the returned map and calls again on the same document
extract_text_from_pdf_again ==
    /\ callee = "pdf"
    /\ ex_pc = "returned"
    /\ history = <<>>
    /\ history' = <<page_text>>
    /\ \E w \in 0..MaxCallWorkers : max_workers' = w
    /\ ex_pc' = "start"
    /\ UNCHANGED <<callee, page_text, ex_exc, pdf_doc, page_count, actual_workers,
                   futures, yielded>>
    /\ UNCHANGED besidesPdf

PdfIdle ==
    /\ pdf_doc = [openable |-> FALSE, pages |-> <<>>]
    /\ max_workers = 0
    /\ page_count = 0
    /\ actual_workers = 0
    /\ futures = <<>>
    /\ yielded = <<>>
    /\ history = <<>>

PdfStart ==
    /\ pdf_doc \in PdfDocs
    /\ max_workers \in 0..MaxCallWorkers
    /\ page_count = 0
    /\ actual_workers = 0
    /\ futures = <<>>
    /\ yielded = <<>>
    /\ history = <<>>

PdfSteps ==
    \/ extract_text_from_pdf_begin
    \/ extract_text_from_pdf_submit
    \/ \E i \in 1..MaxPages : worker_start(i)
    \/ \E i \in 1..MaxPages : worker_finish(i)
    \/ \E i \in 1..MaxPages : extract_text_from_pdf_collect(i)
    \/ extract_text_from_pdf_collected
    \/ extract_text_from_pdf_end

(***************************************************************************)
(* DOCX text extraction: extract_text_from_docx.                           *)
(***************************************************************************)
\* para.style is None
NoStyle == <<>>
\* str(para.style) of two styles
NormalStyle == <<"N", "o", "r", "m", "a", "l">>
PageBreakStyle == <<"P", "a", "g", "e", " ", "B", "r", "e", "a", "k">>

\* the paragraphs a document is made of: [text, style], style as str() gives it
ParaChoices ==
    { [text |-> <<"a">>, style |-> NormalStyle],
      [text |-> <<"b">>, style |-> NoStyle],
      [text |-> <<" ">>, style |-> NormalStyle],
      [text |-> <<"\f">>, style |-> NormalStyle],
      [text |-> <<"P", "a", "g", "e", " ", "b", "r", "e", "a", "k">>, style |-> NormalStyle],
      [text |-> <<"a">>, style |-> PageBreakStyle] }

DocxDocs == UNION {[1..n -> ParaChoices] : n \in 0..MaxParas}

\* lines 150-158: the condition under which a paragraph is a page break
is_page_break(para) ==
    \/ Contains(<<"P", "A", "G", "E", " ", "B", "R", "E", "A", "K">>, Upper(para.text))
    \/ Strip(para.text) = <<"\f">>
    \/ /\ para.style # NoStyle
       /\ Contains(<<"p", "a", "g", "e", " ", "b", "r", "e", "a", "k">>, Lower(para.style))

\* a flush that moves to the next page number even when nothing was stored
flush_at_break_always_advancing(pt, cp, ct) ==
    IF Strip(ct) # <<>>
    THEN [page_text |-> DictSet(pt, cp, Strip(ct)), current_page |-> cp + 1,
          current_text |-> <<>>]
    ELSE [page_text |-> pt, current_page |-> cp + 1, current_text |-> ct]

\* lines 159-162: at a page break, store the accumulated text if it is not blank
flush_at_break(pt, cp, ct) ==
    IF Strip(ct) # <<>>
    THEN [page_text |-> DictSet(pt, cp, Strip(ct)), current_page |-> cp + 1,
          current_text |-> <<>>]
    ELSE [page_text |-> pt, current_page |-> cp, current_text |-> ct]

\* lines 165-166: the last accumulated text becomes the final page
flush_at_end(pt, cp, ct) ==
    IF Strip(ct) # <<>> THEN DictSet(pt, cp, Strip(ct)) ELSE pt

\* lines 144-148: docx.Document(path) parsed, loop variables initialised
extract_text_from_docx_begin ==
    /\ callee = "docx"
    /\ ex_pc = "start"
    /\ page_text' = EmptyDict
    /\ current_page' = 1
    /\ current_text' = <<>>
    /\ para_idx' = 1
    /\ ex_pc' = "loop"
    /\ UNCHANGED <<callee, ex_exc, docx_doc>>
    /\ UNCHANGED besidesDocx

\* lines 149-164: one iteration of the paragraph loop
extract_text_from_docx_para ==
    /\ callee = "docx"
    /\ ex_pc = "loop"
    /\ para_idx <= Len(docx_doc)
    /\ LET para == docx_doc[para_idx] IN
       IF is_page_break(para)
       THEN LET f == flush_at_break(page_text, current_page, current_text) IN
            /\ page_text' = f.page_text
            /\ current_page' = f.current_page
            /\ current_text' = f.current_text
       ELSE /\ current_text' = current_text \o para.text \o <<"\n">>
            /\ UNCHANGED <<page_text, current_page>>
    /\ para_idx' = para_idx + 1
    /\ UNCHANGED <<callee, ex_pc, ex_exc, docx_doc>>
    /\ UNCHANGED besidesDocx

\* lines 165-171: after the loop, the final flush and the return
extract_text_from_docx_end ==
    /\ callee = "docx"
    /\ ex_pc = "loop"
    /\ para_idx > Len(docx_doc)
    /\ page_text' = flush_at_end(page_text, current_page, current_text)
    /\ ex_pc' = "returned"
    /\ UNCHANGED <<callee, ex_exc, docxVars>>
    /\ UNCHANGED besidesDocx

\* an except clause that returns what was extracted so far
docx_except_clause_returning == "returned"

\* lines 168-170: except Exception: logger.error(...); raise
docx_except_clause == "raised"

\* docx.Document or a paragraph access throws inside the try block
extract_text_from_docx_fail ==
    /\ callee = "docx"
    /\ \/ ex_pc = "start"
       \/ ex_pc = "loop" /\ para_idx <= Len(docx_doc)
    /\ ex_exc' = "DocxError"
    /\ ex_pc' = docx_except_clause
    /\ UNCHANGED <<callee, page_text, docxVars>>
    /\ UNCHANGED besidesDocx

DocxIdle ==
    /\ docx_doc = <<>>
    /\ para_idx = 0
    /\ current_page = 0
    /\ current_text = <<>>

DocxStart ==
    /\ docx_doc \in DocxDocs
    /\ para_idx = 0
    /\ current_page = 0
    /\ current_text = <<>>

DocxSteps ==
    \/ extract_text_from_docx_begin
    \/ extract_text_from_docx_para
    \/ extract_text_from_docx_end
    \/ extract_text_from_docx_fail

(***************************************************************************)
(* PPTX text extraction: extract_text_from_pptx.                           *)
(***************************************************************************)
\* a shape without a text attribute, and shapes with one
NoTextShape == [has_text |-> FALSE, text |-> <<>>]
TextShape(t) == [has_text |-> TRUE, text |-> t]

\* the slides a presentation is made of
SlideChoices ==
    { <<>>,
      <<NoTextShape>>,
      <<TextShape(<<>>)>>,
      <<TextShape(<<"a">>)>>,
      <<TextShape(<<"a">>), TextShape(<<"b">>)>>,
      <<NoTextShape, TextShape(<<"b">>), TextShape(<<>>)>> }

PptxDocs == UNION {[1..n -> SlideChoices] : n \in 0..MaxSlides}

\* lines 191-194: the texts of the shapes that have a non-empty text
RECURSIVE text_list(_)
text_list(shapes) ==
    IF shapes = <<>> THEN <<>>
    ELSE IF Head(shapes).has_text /\ Head(shapes).text # <<>>
         THEN <<Head(shapes).text>> \o text_list(Tail(shapes))
         ELSE text_list(Tail(shapes))

\* a store that skips slides without any text
store_slide_text_if_any(pt, i, shapes) ==
    IF text_list(shapes) = <<>> THEN pt
    ELSE DictSet(pt, i + 1, Join(text_list(shapes), <<"\n">>))

\* line 195: page_text[i + 1] = "\n".join(text_list)
store_slide_text(pt, i, shapes) ==
    DictSet(pt, i + 1, Join(text_list(shapes), <<"\n">>))

\* lines 187-189: pptx.Presentation(path) parsed
extract_text_from_pptx_begin ==
    /\ callee = "pptx"
    /\ ex_pc = "start"
    /\ page_text' = EmptyDict
    /\ slide_idx' = 1
    /\ ex_pc' = "loop"
    /\ UNCHANGED <<callee, ex_exc, presentation>>
    /\ UNCHANGED besidesPptx

\* lines 190-195: one iteration of the slide loop (enumerate index slide_idx - 1)
extract_text_from_pptx_slide ==
    /\ callee = "pptx"
    /\ ex_pc = "loop"
    /\ slide_idx <= Len(presentation)
    /\ page_text' = store_slide_text(page_text, slide_idx - 1, presentation[slide_idx])
    /\ slide_idx' = slide_idx + 1
    /\ UNCHANGED <<callee, ex_pc, ex_exc, presentation>>
    /\ UNCHANGED besidesPptx

\* lines 196-200: after the last slide, return page_text
extract_text_from_pptx_end ==
    /\ callee = "pptx"
    /\ ex_pc = "loop"
    /\ slide_idx > Len(presentation)
    /\ ex_pc' = "returned"
    /\ UNCHANGED <<callee, page_text, ex_exc, pptxVars>>
    /\ UNCHANGED besidesPptx

\* lines 197-199: except Exception: logger.error(...); raise
pptx_except_clause == "raised"

\* Presentation or a slide/shape access throws inside the try block
extract_text_from_pptx_fail ==
    /\ callee = "pptx"
    /\ \/ ex_pc = "start"
       \/ ex_pc = "loop" /\ slide_idx <= Len(presentation)
    /\ ex_exc' = "PptxError"
    /\ ex_pc' = pptx_except_clause
    /\ UNCHANGED <<callee, page_text, pptxVars>>
    /\ UNCHANGED besidesPptx

PptxIdle ==
    /\ presentation = <<>>
    /\ slide_idx = 0

PptxStart ==
    /\ presentation \in PptxDocs
    /\ slide_idx = 0

PptxSteps ==
    \/ extract_text_from_pptx_begin
    \/ extract_text_from_pptx_slide
    \/ extract_text_from_pptx_end
    \/ extract_text_from_pptx_fail

(***************************************************************************)
(* Plain text: extract_text_from_txt and split_text_into_pages.            *)
(***************************************************************************)
TxtAlphabet == {"a", "\n", "\f", "-"}

TxtContents == UNION {[1..n -> TxtAlphabet] : n \in 0..MaxLen}

\* line 240: page_markers, in list order
page_markers ==
    << <<"\f">>,
       <<"-", "-", "-", "-">>,
       <<"*", "*", "*", "*">>,
       <<"=", "=", "=", "=", "=", "=">>,
       <<"#", " ", "P", "a", "g", "e">>,
       <<"=", "=", "=">>,
       <<"-", "-", "-">>,
       <<"*", "*", "*">> >>

\* default of max_chars_per_page
max_chars_per_page_default == 3000

\* a packing that rejoins paragraphs with a single newline
RECURSIVE pack_paragraphs_single_newline(_, _, _, _, _)
pack_paragraphs_single_newline(paragraphs, k, pages, cur, max_chars_per_page) ==
    IF k > Len(paragraphs)
    THEN IF cur # <<>> THEN Append(pages, cur) ELSE pages
    ELSE LET para == paragraphs[k] IN
         IF Len(cur) + Len(para) > max_chars_per_page /\ cur # <<>>
         THEN pack_paragraphs_single_newline(paragraphs, k + 1, Append(pages, cur), para,
                                             max_chars_per_page)
         ELSE IF cur # <<>>
              THEN pack_paragraphs_single_newline(paragraphs, k + 1, pages,
                                                  cur \o <<"\n">> \o para, max_chars_per_page)
              ELSE pack_paragraphs_single_newline(paragraphs, k + 1, pages, para,
                                                  max_chars_per_page)

\* lines 247-259: paragraph packing, from paragraph k on
RECURSIVE pack_paragraphs(_, _, _, _, _)
pack_paragraphs(paragraphs, k, pages, cur, max_chars_per_page) ==
    IF k > Len(paragraphs)
    THEN IF cur # <<>> THEN Append(pages, cur) ELSE pages
    ELSE LET para == paragraphs[k] IN
         IF Len(cur) + Len(para) > max_chars_per_page /\ cur # <<>>
         THEN pack_paragraphs(paragraphs, k + 1, Append(pages, cur), para,
                              max_chars_per_page)
         ELSE IF cur # <<>>
              THEN pack_paragraphs(paragraphs, k + 1, pages,
                                   cur \o <<"\n", "\n">> \o para, max_chars_per_page)
              ELSE pack_paragraphs(paragraphs, k + 1, pages, para, max_chars_per_page)

\* a marker choice by position in the text: the marker that occurs earliest
first_marker_by_position(text) ==
    IF \E k \in 1..Len(page_markers) : Contains(page_markers[k], text)
    THEN CHOOSE k \in 1..Len(page_markers) :
            /\ Contains(page_markers[k], text)
            /\ \A j \in 1..Len(page_markers) :
                  Contains(page_markers[j], text) =>
                     \/ FindFrom(text, page_markers[k], 1) < FindFrom(text, page_markers[j], 1)
                     \/ /\ FindFrom(text, page_markers[k], 1) = FindFrom(text, page_markers[j], 1)
                        /\ Len(page_markers[k]) >= Len(page_markers[j])
    ELSE 0

\* lines 241-245: the first marker of the list that occurs in the content, 0 if none
first_marker(text) ==
    IF \E k \in 1..Len(page_markers) : Contains(page_markers[k], text)
    THEN CHOOSE k \in 1..Len(page_markers) :
            /\ Contains(page_markers[k], text)
            /\ \A j \in 1..(k - 1) : ~Contains(page_markers[j], text)
    ELSE 0

\* lines 229-261
split_text_into_pages(text, max_chars_per_page) ==
    IF first_marker(text) # 0
    THEN Split(text, page_markers[first_marker(text)])
    ELSE pack_paragraphs(Split(text, <<"\n", "\n">>), 1, <<>>, <<>>, max_chars_per_page)

\* lines 220-222: {i + 1: page.strip() for i, page in enumerate(pages) if page.strip()}
number_pages(pages) ==
    [k \in {i + 1 : i \in {j \in 0..(Len(pages) - 1) : Strip(pages[j + 1]) # <<>>}}
        |-> Strip(pages[k])]

\* lines 216-223: read, split, number, return
extract_text_from_txt_run ==
    /\ callee = "txt"
    /\ ex_pc = "start"
    /\ page_text' = number_pages(split_text_into_pages(content, max_chars_per_page_default))
    /\ ex_pc' = "returned"
    /\ UNCHANGED <<callee, ex_exc, txtVars>>
    /\ UNCHANGED besidesTxt

\* lines 224-226: except Exception: logger.error(...); raise
txt_except_clause == "raised"

\* open or read throws inside the try block
extract_text_from_txt_fail ==
    /\ callee = "txt"
    /\ ex_pc = "start"
    /\ ex_exc' = "ReadError"
    /\ ex_pc' = txt_except_clause
    /\ UNCHANGED <<callee, page_text, txtVars>>
    /\ UNCHANGED besidesTxt

TxtIdle == content = <<>>

TxtStart == content \in TxtContents

TxtSteps ==
    \/ extract_text_from_txt_run
    \/ extract_text_from_txt_fail

(***************************************************************************)
(* The format router: convert_document_to_text.                            *)
(***************************************************************************)
pdf_ext == <<"p", "d", "f">>
docx_ext == <<"d", "o", "c", "x">>
pptx_ext == <<"p", "p", "t", "x">>
txt_ext == <<"t", "x", "t">>
md_ext == <<"m", "d">>
doc_ext == <<"d", "o", "c">>

\* the plain-text extensions
TEXT_FILE_TYPES == {txt_ext, md_ext}

\* lines 264-269: the dispatch table, extension -> extractor
FILE_TYPES_TO_EXTRACTORS ==
    [ext \in {pdf_ext, docx_ext, pptx_ext} \cup TEXT_FILE_TYPES |->
        IF ext = pdf_ext THEN "pdf"
        ELSE IF ext = docx_ext THEN "docx"
        ELSE IF ext = pptx_ext THEN "pptx"
        ELSE "txt"]

\* the allowlists the router is checked against: the registered types, a
\* supported type with no extractor, a registered type that is not supported
SupportedFileTypesChoices ==
    { DOMAIN FILE_TYPES_TO_EXTRACTORS,
      DOMAIN FILE_TYPES_TO_EXTRACTORS \cup {doc_ext},
      DOMAIN FILE_TYPES_TO_EXTRACTORS \ {md_ext} }

\* Path(document_path).suffix of the paths the router is called with
SuffixChoices ==
    { <<>>,
      <<".", "p", "d", "f">>,
      <<".", "P", "D", "F">>,
      <<".", "d", "o", "c", "x">>,
      <<".", "P", "p", "t", "x">>,
      <<".", "t", "x", "t">>,
      <<".", "M", "D">>,
      <<".", "D", "O", "C">>,
      <<".", "x", "y", "z">> }

\* str.lstrip(".")
RECURSIVE LStripDots(_)
LStripDots(s) ==
    IF s = <<>> THEN <<>>
    ELSE IF Head(s) = "." THEN LStripDots(Tail(s)) ELSE s

\* line 66: path.suffix.lower().lstrip(".")
file_ext(path) == LStripDots(Lower(path.suffix))

\* the three checks with the extension checks made before the existence check
check_document_extension_first(path, supported) ==
    IF file_ext(path) \notin supported THEN "DocProcessorUnsupportedFileTypeError"
    ELSE IF file_ext(path) \notin DOMAIN FILE_TYPES_TO_EXTRACTORS
         THEN "DocProcessorNoExtractorError"
    ELSE IF ~path.exists THEN "FileNotFoundError"
    ELSE "none"

\* lines 62-71: the exception the checks raise, "none" when all pass
check_document(path, supported) ==
    IF ~path.exists THEN "FileNotFoundError"
    ELSE IF file_ext(path) \notin supported THEN "DocProcessorUnsupportedFileTypeError"
    ELSE IF file_ext(path) \notin DOMAIN FILE_TYPES_TO_EXTRACTORS
         THEN "DocProcessorNoExtractorError"
    ELSE "none"

\* lines 60-75: the checks, then the temporary directory is created
convert_document_to_text_check ==
    /\ r_pc = "start"
    /\ LET exc == check_document(document_path, supported_file_types) IN
       IF exc # "none"
       THEN /\ r_pc' = "raised"
            /\ r_exc' = exc
            /\ r_log' = Append(r_log, "exists")
            /\ UNCHANGED tmpdir
       ELSE /\ r_pc' = "staged"
            /\ tmpdir' = "exists"
            /\ r_log' = r_log \o <<"exists", "mkdtemp">>
            /\ UNCHANGED r_exc
    /\ UNCHANGED <<document_path, supported_file_types, r_result>>
    /\ UNCHANGED <<exVars, pdfVars, docxVars, pptxVars, txtVars, imgVars, restVars>>

\* a failing file_system.get that leaves the directory behind
convert_document_to_text_get_fail_leaking ==
    /\ r_pc = "staged"
    /\ r_log' = r_log \o <<"get">>
    /\ r_pc' = "raised"
    /\ r_exc' = "GetError"
    /\ UNCHANGED <<document_path, supported_file_types, r_result, tmpdir>>
    /\ UNCHANGED <<exVars, pdfVars, docxVars, pptxVars, txtVars, imgVars, restVars>>

\* lines 76-78: file_system.get throws; the with block removes the directory
convert_document_to_text_get_fail ==
    /\ r_pc = "staged"
    /\ r_log' = r_log \o <<"get", "cleanup">>
    /\ tmpdir' = "deleted"
    /\ r_pc' = "raised"
    /\ r_exc' = "GetError"
    /\ UNCHANGED <<document_path, supported_file_types, r_result>>
    /\ UNCHANGED <<exVars, pdfVars, docxVars, pptxVars, txtVars, imgVars, restVars>>

\* an extractor call that is handed the caller's path
extractor_call_on_document_path == "extract(document_path)"

\* lines 75 and 80: the extractor is called with tmp_path, the copy's path
extractor_call == "extract(tmp_path)"

\* lines 76-80: file_system.get copies the file, the extractor is called on
\* the copy; what the copy holds is read by the extractor
convert_document_to_text_dispatch ==
    /\ r_pc = "staged"
    /\ r_log' = r_log \o <<"get", extractor_call>>
    /\ r_pc' = "extracting"
    /\ callee' = FILE_TYPES_TO_EXTRACTORS[file_ext(document_path)]
    /\ ex_pc' = "start"
    /\ page_text' = EmptyDict
    /\ ex_exc' = "none"
    /\ IF callee' = "pdf"
       THEN /\ pdf_doc' \in PdfDocs
            /\ max_workers' \in 0..MaxCallWorkers
            /\ UNCHANGED <<page_count, actual_workers, futures, yielded, history>>
       ELSE UNCHANGED pdfVars
    /\ IF callee' = "docx"
       THEN docx_doc' \in DocxDocs /\ UNCHANGED <<para_idx, current_page, current_text>>
       ELSE UNCHANGED docxVars
    /\ IF callee' = "pptx"
       THEN presentation' \in PptxDocs /\ UNCHANGED slide_idx
       ELSE UNCHANGED pptxVars
    /\ IF callee' = "txt"
       THEN content' \in TxtContents
       ELSE UNCHANGED txtVars
    /\ UNCHANGED <<document_path, supported_file_types, r_exc, r_result, tmpdir>>
    /\ UNCHANGED <<imgVars, restVars>>

\* line 80 and the end of the with block: the extractor's map is returned or
\* its exception passes through; either way the directory is removed
convert_document_to_text_exit ==
    /\ r_pc = "extracting"
    /\ ex_pc \in {"returned", "raised"}
    /\ tmpdir' = "deleted"
    /\ r_log' = Append(r_log, "cleanup")
    /\ IF ex_pc = "returned"
       THEN r_pc' = "returned" /\ r_result' = page_text /\ UNCHANGED r_exc
       ELSE r_pc' = "raised" /\ r_exc' = ex_exc /\ UNCHANGED r_result
    /\ UNCHANGED <<document_path, supported_file_types>>
    /\ UNCHANGED <<exVars, pdfVars, docxVars, pptxVars, txtVars, imgVars, restVars>>

RouterIdle ==
    /\ document_path = [exists |-> FALSE, suffix |-> <<>>]
    /\ supported_file_types = {}
    /\ r_pc = "idle"
    /\ r_exc = "none"
    /\ r_result = EmptyDict
    /\ tmpdir = "none"
    /\ r_log = <<>>

RouterStart ==
    /\ document_path \in [exists : BOOLEAN, suffix : SuffixChoices]
    /\ supported_file_types \in SupportedFileTypesChoices
    /\ r_pc = "start"
    /\ r_exc = "none"
    /\ r_result = EmptyDict
    /\ tmpdir = "none"
    /\ r_log = <<>>

RouterSteps ==
    \/ convert_document_to_text_check
    \/ convert_document_to_text_get_fail
    \/ convert_document_to_text_dispatch
    \/ convert_document_to_text_exit

(***************************************************************************)
(* The page rasterizer: convert_page_to_image and the renderers it calls.  *)
(***************************************************************************)
\* Path(document_path).suffix of the paths convert_page_to_image is called with
ImgSuffixChoices ==
    { <<>>,
      <<".", "p", "d", "f">>,
      <<".", "P", "D", "F">>,
      <<".", "d", "o", "c", "x">>,
      <<".", "p", "p", "t", "x">>,
      <<".", "t", "x", "t">>,
      <<".", "M", "D">>,
      <<".", "x", "y", "z">> }

\* a PDF as the two renderers see it
ImgDocs == [n_pages : 0..MaxPages, fitz_opens : BOOLEAN, fitz_renders : BOOLEAN,
            poppler_ok : BOOLEAN]

NoImgDoc == [n_pages |-> 0, fitz_opens |-> FALSE, fitz_renders |-> FALSE,
             poppler_ok |-> FALSE]

\* what the probes and the conversion subprocess do on the host
ProbeOutcomes == {"ok", "unavailable", "error"}

Hosts == [libreoffice : ProbeOutcomes, unoconv : ProbeOutcomes, convert_ok : BOOLEAN,
          produced : BOOLEAN]

NoHost == [libreoffice |-> "unavailable", unoconv |-> "unavailable",
           convert_ok |-> FALSE, produced |-> FALSE]

\* the base64 JPEG of a page as one renderer encodes it
Base64Jpeg(renderer, page) == <<"/", "9", "j", renderer, page>>

\* lines 128-161: PyMuPDF renderer, "" for an invalid page or any exception
convert_pdf_page_to_image_fitz(d, n) ==
    IF ~d.fitz_opens THEN <<>>
    ELSE IF n < 1 \/ n > d.n_pages THEN <<>>
    ELSE IF ~d.fitz_renders THEN <<>>
    ELSE Base64Jpeg("fitz", n)

\* a pdf2image renderer that hands back an image for a page past the last one
convert_pdf_page_to_image_unclamped(d, n) ==
    IF ~d.poppler_ok THEN <<>>
    ELSE Base64Jpeg("pdf2image", n)

\* lines 182-205: pdf2image renderer, "" for no image or any exception
convert_pdf_page_to_image(d, n) ==
    IF ~d.poppler_ok THEN <<>>
    ELSE IF n < 1 \/ n > d.n_pages THEN <<>>
    ELSE Base64Jpeg("pdf2image", n)

\* a fallback that is taken whatever the first renderer returned
falls_back_always(result) == TRUE

\* lines 71-74: `if result: return result`, else the second renderer is called
falls_back(result) == result = <<>>

ImgReturn(value) ==
    /\ img_pc' = "returned"
    /\ img_result' = value
    /\ UNCHANGED img_exc

\* lines 64-74: a .pdf path, the PyMuPDF renderer is called; line 130 opens
\* the document and no path of the renderer closes it
convert_page_to_image_pdf ==
    /\ img_pc = "start"
    /\ file_ext(img_path) = pdf_ext
    /\ LET result == convert_pdf_page_to_image_fitz(img_doc, img_page_num) IN
       /\ img_calls' = Append(img_calls,
              [fn |-> "convert_pdf_page_to_image_fitz", result |-> result])
       /\ IF falls_back(result)
          THEN img_pc' = "fallback" /\ UNCHANGED <<img_result, img_exc>>
          ELSE ImgReturn(result)
    /\ UNCHANGED <<img_path, img_page_num, img_doc, host, img_tmpdir, use_libreoffice,
                   use_unoconv>>
    /\ img_handle' = IF img_doc.fitz_opens THEN "open" ELSE "none"
    /\ UNCHANGED <<textVars, restVars>>

\* line 74: the pdf2image renderer is called and its result returned
convert_page_to_image_pdf_fallback ==
    /\ img_pc = "fallback"
    /\ LET result == convert_pdf_page_to_image(img_doc, img_page_num) IN
       /\ img_calls' = Append(img_calls,
              [fn |-> "convert_pdf_page_to_image", result |-> result])
       /\ ImgReturn(result)
    /\ UNCHANGED <<img_path, img_page_num, img_doc, host, img_tmpdir, use_libreoffice,
                   use_unoconv>>
    /\ UNCHANGED img_handle
    /\ UNCHANGED <<textVars, restVars>>

\* a dispatch that raises for .docx and the plain-text types as well
convert_page_to_image_unsupported_raising ==
    /\ img_pc = "start"
    /\ file_ext(img_path) # pdf_ext
    /\ file_ext(img_path) = docx_ext
          \/ (file_ext(img_path) # pptx_ext /\ file_ext(img_path) \in TEXT_FILE_TYPES)
    /\ img_pc' = "raised"
    /\ img_exc' = "ValueError"
    /\ UNCHANGED <<img_path, img_page_num, img_doc, host, img_result, img_calls, img_tmpdir,
                   use_libreoffice, use_unoconv>>
    /\ UNCHANGED img_handle
    /\ UNCHANGED <<textVars, restVars>>

\* lines 75-79 and 82-84: .docx and the plain-text types return ""
convert_page_to_image_unsupported ==
    /\ img_pc = "start"
    /\ file_ext(img_path) # pdf_ext
    /\ file_ext(img_path) = docx_ext
          \/ (file_ext(img_path) # pptx_ext /\ file_ext(img_path) \in TEXT_FILE_TYPES)
    /\ ImgReturn(<<>>)
    /\ UNCHANGED <<img_path, img_page_num, img_doc, host, img_calls, img_tmpdir,
                   use_libreoffice, use_unoconv>>
    /\ UNCHANGED img_handle
    /\ UNCHANGED <<textVars, restVars>>

\* lines 85-86: any other extension raises ValueError
convert_page_to_image_other ==
    /\ img_pc = "start"
    /\ file_ext(img_path) \notin {pdf_ext, docx_ext, pptx_ext} \cup TEXT_FILE_TYPES
    /\ img_pc' = "raised"
    /\ img_exc' = "ValueError"
    /\ UNCHANGED <<img_path, img_page_num, img_doc, host, img_result, img_calls, img_tmpdir,
                   use_libreoffice, use_unoconv>>
    /\ UNCHANGED img_handle
    /\ UNCHANGED <<textVars, restVars>>

\* a probe sequence that asks for unoconv before LibreOffice
convert_pptx_slide_to_image_probe_unoconv_first ==
    /\ img_pc = "start"
    /\ file_ext(img_path) = pptx_ext
    /\ img_calls' = Append(img_calls,
           [fn |-> "unoconv --version", result |-> host.unoconv])
    /\ use_libreoffice' = FALSE
    /\ IF host.unoconv = "ok"
       THEN /\ use_unoconv' = TRUE
            /\ img_pc' = "convert"
            /\ UNCHANGED <<img_result, img_exc>>
       ELSE /\ use_unoconv' = FALSE
            /\ ImgReturn(<<>>)
    /\ UNCHANGED <<img_path, img_page_num, img_doc, host, img_tmpdir>>
    /\ UNCHANGED img_handle
    /\ UNCHANGED <<textVars, restVars>>

\* lines 80-81 and 232-240: a .pptx path, `libreoffice --version` is run
convert_pptx_slide_to_image_probe_libreoffice ==
    /\ img_pc = "start"
    /\ file_ext(img_path) = pptx_ext
    /\ img_calls' = Append(img_calls,
           [fn |-> "libreoffice --version", result |-> host.libreoffice])
    /\ use_unoconv' = FALSE
    /\ IF host.libreoffice = "ok"
       THEN /\ use_libreoffice' = TRUE
            /\ img_pc' = "convert"
            /\ UNCHANGED <<img_result, img_exc>>
       ELSE IF host.libreoffice = "unavailable"
       THEN /\ use_libreoffice' = FALSE
            /\ img_pc' = "probe_unoconv"
            /\ UNCHANGED <<img_result, img_exc>>
       ELSE /\ use_libreoffice' = FALSE
            /\ ImgReturn(<<>>)
    /\ UNCHANGED <<img_path, img_page_num, img_doc, host, img_tmpdir>>
    /\ UNCHANGED img_handle
    /\ UNCHANGED <<textVars, restVars>>

\* lines 241-250: `unoconv --version` is run
convert_pptx_slide_to_image_probe_unoconv ==
    /\ img_pc = "probe_unoconv"
    /\ img_calls' = Append(img_calls,
           [fn |-> "unoconv --version", result |-> host.unoconv])
    /\ IF host.unoconv = "ok"
       THEN /\ use_unoconv' = TRUE
            /\ img_pc' = "convert"
            /\ UNCHANGED <<img_result, img_exc>>
       ELSE /\ use_unoconv' = FALSE
            /\ ImgReturn(<<>>)
    /\ UNCHANGED <<img_path, img_page_num, img_doc, host, img_tmpdir, use_libreoffice>>
    /\ UNCHANGED img_handle
    /\ UNCHANGED <<textVars, restVars>>

\* lines 253-284: the directory is created and the converter run; a failing
\* subprocess or a failing rename of the missing output leaves through the
\* with block and the outer except clause
convert_pptx_slide_to_image_convert ==
    /\ img_pc = "convert"
    /\ img_calls' = Append(img_calls,
           [fn |-> IF use_libreoffice THEN "libreoffice --convert-to pdf"
                   ELSE "unoconv -f pdf",
            result |-> IF host.convert_ok THEN "ok" ELSE "error"])
    /\ IF \/ ~host.convert_ok
          \/ use_libreoffice /\ ~img_path.stem_is_output /\ ~host.produced
       THEN /\ img_tmpdir' = "deleted"
            /\ ImgReturn(<<>>)
       ELSE /\ img_tmpdir' = "exists"
            /\ img_pc' = "render"
            /\ UNCHANGED <<img_result, img_exc>>
    /\ UNCHANGED <<img_path, img_page_num, img_doc, host, use_libreoffice, use_unoconv>>
    /\ UNCHANGED img_handle
    /\ UNCHANGED <<textVars, restVars>>

\* lines 286-293: the intermediate PDF is rendered with pdf2image if it exists
convert_pptx_slide_to_image_render ==
    /\ img_pc = "render"
    /\ img_tmpdir' = "deleted"
    /\ IF host.produced
       THEN LET result == convert_pdf_page_to_image(img_doc, img_page_num) IN
            /\ img_calls' = Append(img_calls,
                   [fn |-> "convert_pdf_page_to_image", result |-> result])
            /\ ImgReturn(result)
       ELSE /\ UNCHANGED img_calls
            /\ ImgReturn(<<>>)
    /\ UNCHANGED <<img_path, img_page_num, img_doc, host, use_libreoffice, use_unoconv>>
    /\ UNCHANGED img_handle
    /\ UNCHANGED <<textVars, restVars>>

ImgIdle ==
    /\ img_path = [suffix |-> <<>>, stem_is_output |-> FALSE]
    /\ img_page_num = 0
    /\ img_doc = NoImgDoc
    /\ host = NoHost
    /\ img_pc = "idle"
    /\ img_result = <<>>
    /\ img_exc = "none"
    /\ img_calls = <<>>
    /\ img_tmpdir = "none"
    /\ use_libreoffice = FALSE
    /\ use_unoconv = FALSE
    /\ img_handle = "none"

\* the document and the host matter only to the formats that read them
ImgStart ==
    /\ img_path \in [suffix : ImgSuffixChoices, stem_is_output : BOOLEAN]
    /\ file_ext(img_path) # pptx_ext => ~img_path.stem_is_output
    /\ img_page_num \in 0..(MaxPages + 1)
    /\ IF file_ext(img_path) = pdf_ext
       THEN img_doc \in ImgDocs /\ host = NoHost
       ELSE IF file_ext(img_path) = pptx_ext
       THEN /\ img_doc \in {d \in ImgDocs : ~d.fitz_opens /\ ~d.fitz_renders}
            /\ host \in Hosts
       ELSE img_doc = NoImgDoc /\ host = NoHost
    /\ img_pc = "start"
    /\ img_result = <<>>
    /\ img_exc = "none"
    /\ img_calls = <<>>
    /\ img_tmpdir = "none"
    /\ use_libreoffice = FALSE
    /\ use_unoconv = FALSE
    /\ img_handle = "none"

ImgSteps ==
    \/ convert_page_to_image_pdf
    \/ convert_page_to_image_pdf_fallback
    \/ convert_page_to_image_unsupported
    \/ convert_page_to_image_other
    \/ convert_pptx_slide_to_image_probe_libreoffice
    \/ convert_pptx_slide_to_image_probe_unoconv
    \/ convert_pptx_slide_to_image_convert
    \/ convert_pptx_slide_to_image_render

(***************************************************************************)
(* Bulk rasterization: convert_document_pages_to_images and the two bulk   *)
(* converters it calls.                                                    *)
(***************************************************************************)
BulkSuffixChoices ==
    { <<>>,
      <<".", "p", "d", "f">>,
      <<".", "P", "D", "F">>,
      <<".", "p", "p", "t", "x">>,
      <<".", "t", "x", "t">> }

\* a PDF as the two bulk converters see it
BulkDocs == [n_pages : 0..MaxPages, fitz_opens : BOOLEAN, poppler_ok : BOOLEAN]

NoBulkDoc == [n_pages |-> 0, fitz_opens |-> FALSE, poppler_ok |-> FALSE]

\* lines 96-107: the page task.  The page is rendered after the with block
\* has closed the document, so whether get_pixmap still works is left open:
\* the task returns the image, or "" from its except clause
_process_pdf_page_fitz(page_idx, rendered) ==
    IF rendered
    THEN [page_num |-> page_idx + 1, img_base64 |-> Base64Jpeg("fitz", page_idx + 1)]
    ELSE [page_num |-> page_idx + 1, img_base64 |-> <<>>]

\* a result assembly that stores what the task returned, empty or not
store_image_always(d, n, img_base64) == DictSet(d, n, img_base64)

\* lines 385-386: if img_base64: result[page_num] = img_base64
store_image(d, n, img_base64) ==
    IF img_base64 # <<>> THEN DictSet(d, n, img_base64) ELSE d

\* lines 416-437: every page through pdf2image, {} from the except clause
convert_pdf_to_images_pdf2image(d) ==
    IF ~d.poppler_ok THEN EmptyDict
    ELSE [i \in 1..d.n_pages |-> Base64Jpeg("pdf2image", i)]

\* lines 393-395: except Exception: logger.error(...); return {}
fitz_except_clause == "returned"

BulkRunning == {i \in 1..Len(bulk_futures) : bulk_futures[i].state = "running"}
\* futures counted as finished as soon as their task has started
BulkStarted ==
    {i \in 1..Len(bulk_futures) : bulk_futures[i].state \in {"running", "done", "broken"}}

BulkFinished == {i \in 1..Len(bulk_futures) : bulk_futures[i].state \in {"done", "broken"}}

\* an exception inside the try block of convert_pdf_to_images_fitz
BulkFitzFails(exc) ==
    /\ bulk_fitz_exc' = exc
    /\ bulk_fitz_outcome' = fitz_except_clause
    /\ bulk_result' = EmptyDict

\* lines 334-338: any extension but pdf returns the empty map
convert_document_pages_to_images_other ==
    /\ bulk_pc = "start"
    /\ file_ext(bulk_path) # pdf_ext
    /\ bulk_pc' = "returned"
    /\ bulk_return' = EmptyDict
    /\ UNCHANGED <<bulk_path, bulk_doc, bulk_max_workers, bulk_page_count,
                   bulk_actual_workers, bulk_futures, bulk_yielded, bulk_result,
                   bulk_fitz_exc, bulk_fitz_outcome, bulk_calls>>
    /\ UNCHANGED <<textVars, imgVars, splitVars, appVars>>

\* lines 319-325 and 359-380: the fast path is called; it opens the document
\* for the page count, sizes and creates the pool and submits every page
convert_pdf_to_images_fitz_begin ==
    /\ bulk_pc = "start"
    /\ file_ext(bulk_path) = pdf_ext
    /\ bulk_calls' = Append(bulk_calls, "convert_pdf_to_images_fitz")
    /\ bulk_yielded' = {}
    /\ IF ~bulk_doc.fitz_opens
       THEN /\ BulkFitzFails("FileDataError")
            /\ bulk_pc' = "fitz_done"
            /\ UNCHANGED <<bulk_page_count, bulk_actual_workers, bulk_futures>>
       ELSE LET n == bulk_doc.n_pages
                w == pool_size(bulk_max_workers, n) IN
            /\ bulk_page_count' = n
            /\ bulk_actual_workers' = w
            /\ IF w <= 0
               THEN /\ BulkFitzFails("ValueError")
                    /\ bulk_pc' = "fitz_done"
                    /\ UNCHANGED bulk_futures
               ELSE /\ bulk_futures' = [i \in 1..n |->
                            [page_idx |-> i - 1, state |-> "pending", handle |-> "none",
                             result |-> [page_num |-> 0, img_base64 |-> <<>>]]]
                    /\ bulk_result' = EmptyDict
                    /\ bulk_pc' = "collect"
                    /\ UNCHANGED <<bulk_fitz_exc, bulk_fitz_outcome>>
    /\ UNCHANGED <<bulk_path, bulk_doc, bulk_max_workers, bulk_return>>
    /\ UNCHANGED <<textVars, imgVars, splitVars, appVars>>

\* a pool process takes the oldest queued task and enters the with block
\* of the task: line 97 opens the task's own handle
process_start(i) ==
    /\ i \in 1..Len(bulk_futures)
    /\ bulk_futures[i].state = "pending"
    /\ \A j \in 1..(i - 1) : bulk_futures[j].state # "pending"
    /\ Cardinality(BulkRunning) < bulk_actual_workers
    /\ bulk_futures' = [bulk_futures EXCEPT ![i].state = "running", ![i].handle = "open"]
    /\ UNCHANGED <<bulk_path, bulk_doc, bulk_max_workers, bulk_pc, bulk_page_count,
                   bulk_actual_workers, bulk_yielded, bulk_result, bulk_fitz_exc,
                   bulk_fitz_outcome, bulk_calls, bulk_return>>
    /\ UNCHANGED <<textVars, imgVars, splitVars, appVars>>

\* lines 97-98: the page is taken from the document and the with block is
\* left, which closes the handle
process_close(i) ==
    /\ i \in 1..Len(bulk_futures)
    /\ bulk_futures[i].state = "running"
    /\ bulk_futures[i].handle = "open"
    /\ bulk_futures' = [bulk_futures EXCEPT ![i].handle = "closed"]
    /\ UNCHANGED <<bulk_path, bulk_doc, bulk_max_workers, bulk_pc, bulk_page_count,
                   bulk_actual_workers, bulk_yielded, bulk_result, bulk_fitz_exc,
                   bulk_fitz_outcome, bulk_calls, bulk_return>>
    /\ UNCHANGED <<textVars, imgVars, splitVars, appVars>>

\* lines 99-107: after the with block the page is rendered and encoded, and
\* the task body runs to its end
process_finish(i) ==
    /\ i \in 1..Len(bulk_futures)
    /\ bulk_futures[i].state = "running"
    /\ bulk_futures[i].handle = "closed"
    /\ \E rendered \in BOOLEAN :
          bulk_futures' = [bulk_futures EXCEPT
              ![i].state = "done",
              ![i].result = _process_pdf_page_fitz(bulk_futures[i].page_idx, rendered)]
    /\ UNCHANGED <<bulk_path, bulk_doc, bulk_max_workers, bulk_pc, bulk_page_count,
                   bulk_actual_workers, bulk_yielded, bulk_result, bulk_fitz_exc,
                   bulk_fitz_outcome, bulk_calls, bulk_return>>
    /\ UNCHANGED <<textVars, imgVars, splitVars, appVars>>

\* a pool process dies while running a task: the pool is broken and every
\* future that has not finished finishes with BrokenProcessPool
process_dies ==
    /\ BulkRunning # {}
    /\ bulk_futures' = [i \in 1..Len(bulk_futures) |->
            IF bulk_futures[i].state = "done" THEN bulk_futures[i]
            ELSE [bulk_futures[i] EXCEPT !.state = "broken"]]
    /\ UNCHANGED <<bulk_path, bulk_doc, bulk_max_workers, bulk_pc, bulk_page_count,
                   bulk_actual_workers, bulk_yielded, bulk_result, bulk_fitz_exc,
                   bulk_fitz_outcome, bulk_calls, bulk_return>>
    /\ UNCHANGED <<textVars, imgVars, splitVars, appVars>>

\* lines 383-386: as_completed yields a finished future; future.result()
\* raises for a broken pool, otherwise a non-empty image is stored
convert_pdf_to_images_fitz_collect(i) ==
    /\ bulk_pc = "collect"
    /\ i \in BulkFinished \ bulk_yielded
    /\ bulk_yielded' = bulk_yielded \cup {i}
    /\ IF bulk_futures[i].state = "broken"
       THEN /\ BulkFitzFails("BrokenProcessPool")
            /\ bulk_pc' = "shutdown"
       ELSE LET r == bulk_futures[i].result IN
            /\ bulk_result' = store_image(bulk_result, r.page_num, r.img_base64)
            /\ UNCHANGED <<bulk_pc, bulk_fitz_exc, bulk_fitz_outcome>>
    /\ UNCHANGED <<bulk_path, bulk_doc, bulk_max_workers, bulk_page_count,
                   bulk_actual_workers, bulk_futures, bulk_calls, bulk_return>>
    /\ UNCHANGED <<textVars, imgVars, splitVars, appVars>>

\* as_completed is exhausted
convert_pdf_to_images_fitz_collected ==
    /\ bulk_pc = "collect"
    /\ bulk_yielded = 1..Len(bulk_futures)
    /\ bulk_pc' = "shutdown"
    /\ bulk_fitz_outcome' = "returned"
    /\ UNCHANGED <<bulk_path, bulk_doc, bulk_max_workers, bulk_page_count,
                   bulk_actual_workers, bulk_futures, bulk_yielded, bulk_result,
                   bulk_fitz_exc, bulk_calls, bulk_return>>
    /\ UNCHANGED <<textVars, imgVars, splitVars, appVars>>

\* leaving the with block: shutdown(wait=True), then lines 388-395
convert_pdf_to_images_fitz_end ==
    /\ bulk_pc = "shutdown"
    /\ BulkFinished = 1..Len(bulk_futures)
    /\ bulk_pc' = "fitz_done"
    /\ UNCHANGED <<bulk_path, bulk_doc, bulk_max_workers, bulk_page_count,
                   bulk_actual_workers, bulk_futures, bulk_yielded, bulk_result,
                   bulk_fitz_exc, bulk_fitz_outcome, bulk_calls, bulk_return>>
    /\ UNCHANGED <<textVars, imgVars, splitVars, appVars>>

\* lines 324-332: the fast path's map is returned; had the call raised, the
\* except clause would log and the pdf2image path would be called
convert_document_pages_to_images_return ==
    /\ bulk_pc = "fitz_done"
    /\ bulk_pc' = "returned"
    /\ IF bulk_fitz_outcome = "raised"
       THEN /\ bulk_calls' = Append(bulk_calls, "convert_pdf_to_images_pdf2image")
            /\ bulk_return' = convert_pdf_to_images_pdf2image(bulk_doc)
       ELSE /\ bulk_return' = bulk_result
            /\ UNCHANGED bulk_calls
    /\ UNCHANGED <<bulk_path, bulk_doc, bulk_max_workers, bulk_page_count,
                   bulk_actual_workers, bulk_futures, bulk_yielded, bulk_result,
                   bulk_fitz_exc, bulk_fitz_outcome>>
    /\ UNCHANGED <<textVars, imgVars, splitVars, appVars>>

BulkIdle ==
    /\ bulk_path = [suffix |-> <<>>]
    /\ bulk_doc = NoBulkDoc
    /\ bulk_max_workers = 1
    /\ bulk_pc = "idle"
    /\ bulk_page_count = 0
    /\ bulk_actual_workers = 0
    /\ bulk_futures = <<>>
    /\ bulk_yielded = {}
    /\ bulk_result = EmptyDict
    /\ bulk_fitz_exc = "none"
    /\ bulk_fitz_outcome = "none"
    /\ bulk_calls = <<>>
    /\ bulk_return = EmptyDict

\* the document matters only to the .pdf branch
BulkStart ==
    /\ bulk_path \in [suffix : BulkSuffixChoices]
    /\ IF file_ext(bulk_path) = pdf_ext
       THEN bulk_doc \in BulkDocs /\ bulk_max_workers \in 0..MaxCallWorkers
       ELSE bulk_doc = NoBulkDoc /\ bulk_max_workers = 1
    /\ bulk_pc = "start"
    /\ bulk_page_count = 0
    /\ bulk_actual_workers = 0
    /\ bulk_futures = <<>>
    /\ bulk_yielded = {}
    /\ bulk_result = EmptyDict
    /\ bulk_fitz_exc = "none"
    /\ bulk_fitz_outcome = "none"
    /\ bulk_calls = <<>>
    /\ bulk_return = EmptyDict

BulkSteps ==
    \/ convert_document_pages_to_images_other
    \/ convert_pdf_to_images_fitz_begin
    \/ \E i \in 1..MaxPages : process_start(i)
    \/ \E i \in 1..MaxPages : process_close(i)
    \/ \E i \in 1..MaxPages : process_finish(i)
    \/ process_dies
    \/ \E i \in 1..MaxPages : convert_pdf_to_images_fitz_collect(i)
    \/ convert_pdf_to_images_fitz_collected
    \/ convert_pdf_to_images_fitz_end
    \/ convert_document_pages_to_images_return

(***************************************************************************)
(* split_text_into_pages called on its own, with any max_chars_per_page.   *)
(***************************************************************************)
MaxChars == 3

MaxCharsChoices == (1..MaxChars) \cup {max_chars_per_page_default}

\* contents holding two markers of the list, in either order of position
SplitMarkerMixes ==
    {page_markers[j] \o <<"a">> \o page_markers[k] :
        j \in 1..Len(page_markers), k \in 1..Len(page_markers)}

SplitContents == TxtContents \cup SplitMarkerMixes

\* lines 229-261: the call and its returned list
split_text_into_pages_call ==
    /\ sp_pc = "start"
    /\ sp_pages' = split_text_into_pages(sp_content, sp_max_chars)
    /\ sp_pc' = "returned"
    /\ UNCHANGED <<sp_content, sp_max_chars>>
    /\ UNCHANGED <<textVars, imgVars, bulkVars, appVars>>

SplitIdle ==
    /\ sp_content = <<>>
    /\ sp_max_chars = max_chars_per_page_default
    /\ sp_pages = <<>>
    /\ sp_pc = "idle"

SplitStart ==
    /\ sp_content \in SplitContents
    /\ sp_max_chars \in MaxCharsChoices
    /\ sp_pages = <<>>
    /\ sp_pc = "start"

SplitSteps == split_text_into_pages_call

(***************************************************************************)
(* Specifications: each extractor called directly on every document.       *)
(***************************************************************************)
besidesKernel == <<streamVars, retryVars, chatVars, dbVars, authVars>>
besidesStream == <<kernelVars, retryVars, chatVars, dbVars, authVars>>
besidesRetry == <<kernelVars, streamVars, chatVars, dbVars, authVars>>
besidesChat == <<kernelVars, streamVars, retryVars, dbVars, authVars>>
besidesDb == <<kernelVars, streamVars, retryVars, chatVars, authVars>>
besidesAuth == <<kernelVars, streamVars, retryVars, chatVars, dbVars>>

(***************************************************************************)
(* Kernel.await_kernel_execution                                           *)
(* src/agent_generic_base/agent_cli/kernel.py, lines 98-108                *)
(***************************************************************************)
MaxWait == 5

\* the values of max_wait a caller passes: a count of polls
MaxWaitChoices == 0..MaxWait

\* status codes the notebook session service answers with
KernelStatusChoices == {200, 404, 401, 500, 503}

\* lines 104-108 with an assert that lets every status but 404 go on
kernel_status_verdict_lenient(status_code) ==
    IF status_code = 404 THEN "break" ELSE "sleep"

\* lines 104-108: what the loop body does with the status of a response
kernel_status_verdict(status_code) ==
    IF status_code = 404 THEN "break"
    ELSE IF status_code = 200 THEN "sleep"
    ELSE "AssertionError"

\* lines 99-103: the range has another item, requests.get is called
await_kernel_execution_get ==
    /\ kernel_pc = "loop"
    /\ Len(kernel_statuses) < kernel_max_wait
    /\ \E status_code \in KernelStatusChoices :
          kernel_statuses' = Append(kernel_statuses, status_code)
    /\ kernel_pc' = "check"
    /\ UNCHANGED <<kernel_max_wait, kernel_sleeps, kernel_exc>>
    /\ UNCHANGED <<loaderVars, besidesKernel>>

\* lines 104-107: break on 404, assert the status is 200
await_kernel_execution_check ==
    /\ kernel_pc = "check"
    /\ LET verdict == kernel_status_verdict(kernel_statuses[Len(kernel_statuses)]) IN
       IF verdict = "break"
       THEN kernel_pc' = "returned" /\ UNCHANGED kernel_exc
       ELSE IF verdict = "sleep"
       THEN kernel_pc' = "sleep" /\ UNCHANGED kernel_exc
       ELSE kernel_pc' = "raised" /\ kernel_exc' = verdict
    /\ UNCHANGED <<kernel_max_wait, kernel_statuses, kernel_sleeps>>
    /\ UNCHANGED <<loaderVars, besidesKernel>>

\* line 108: time.sleep(1), then the next item of the range
await_kernel_execution_sleep ==
    /\ kernel_pc = "sleep"
    /\ kernel_sleeps' = kernel_sleeps + 1
    /\ kernel_pc' = "loop"
    /\ UNCHANGED <<kernel_max_wait, kernel_statuses, kernel_exc>>
    /\ UNCHANGED <<loaderVars, besidesKernel>>

\* line 99: range(max_wait) is exhausted, the method returns None
await_kernel_execution_return ==
    /\ kernel_pc = "loop"
    /\ Len(kernel_statuses) >= kernel_max_wait
    /\ kernel_pc' = "returned"
    /\ UNCHANGED <<kernel_max_wait, kernel_statuses, kernel_sleeps, kernel_exc>>
    /\ UNCHANGED <<loaderVars, besidesKernel>>

KernelIdle ==
    /\ kernel_max_wait = 0
    /\ kernel_pc = "idle"
    /\ kernel_statuses = <<>>
    /\ kernel_sleeps = 0
    /\ kernel_exc = "none"

KernelStart ==
    /\ kernel_max_wait \in MaxWaitChoices
    /\ kernel_pc = "loop"
    /\ kernel_statuses = <<>>
    /\ kernel_sleeps = 0
    /\ kernel_exc = "none"

KernelSteps ==
    \/ await_kernel_execution_get
    \/ await_kernel_execution_check
    \/ await_kernel_execution_sleep
    \/ await_kernel_execution_return

(***************************************************************************)
(* to_custom_model_streaming_response                                      *)
(* src/agent_langgraph/custom_model/helpers.py, lines 78-132               *)
(***************************************************************************)
MaxItems == 3

\* response_text values: the empty string is the falsy one
ResponseTexts == {"", "a", "b"}

\* pipeline_interactions: None or an event object
PipelineInteractionsChoices == {"None", "events1", "events2"}

\* usage_metrics: the empty dict (falsy) or a dict of token counts
UsageMetricsChoices == {"{}", "usage1"}

\* uuid4 values
CompletionIds == {"uuid1", "uuid2"}

StreamItems ==
    [response_text : ResponseTexts, pipeline_interactions : PipelineInteractionsChoices,
     usage_metrics : UsageMetricsChoices]

\* pipeline_interactions.model_dump_json() if pipeline_interactions else None
model_dump_json_or_none(pipeline_interactions) ==
    IF pipeline_interactions = "None" THEN "None" ELSE <<"json", pipeline_interactions>>

\* CompletionUsage(**usage_metrics) if usage_metrics else None
completion_usage_or_none(usage_metrics) ==
    IF usage_metrics \in {"None", "{}"} THEN "None" ELSE <<"CompletionUsage", usage_metrics>>

\* a loop that yields a chunk for every tuple, empty text or not
yields_content_chunk_always(response_text) == TRUE

\* line 101: if response_text
yields_content_chunk(response_text) == response_text # ""

\* lines 102-114: the chunk for one response text
content_chunk(id, response_text, usage_metrics) ==
    [id |-> id, content |-> response_text, finish_reason |-> "None",
     usage |-> completion_usage_or_none(usage_metrics), pipeline_interactions |-> "None"]

\* lines 117-132: the chunk that ends the stream
final_chunk(id, usage_metrics, pipeline_interactions) ==
    [id |-> id, content |-> "None", finish_reason |-> "stop",
     usage |-> completion_usage_or_none(usage_metrics),
     pipeline_interactions |-> model_dump_json_or_none(pipeline_interactions)]

\* lines 87-91: the first next() of the consumer runs the body up to the loop
to_custom_model_streaming_response_begin ==
    /\ stream_pc = "created"
    /\ completion_id' \in CompletionIds
    /\ last_pipeline_interactions' = "None"
    /\ last_usage_metrics' = "None"
    /\ stream_pc' = "loop"
    /\ UNCHANGED <<streaming_response_generator, stream_pos, stream_chunks>>
    /\ UNCHANGED <<loaderVars, besidesStream>>

\* lines 93-114: one tuple of the generator
to_custom_model_streaming_response_item ==
    /\ stream_pc = "loop"
    /\ stream_pos < Len(streaming_response_generator)
    /\ LET item == streaming_response_generator[stream_pos + 1] IN
       /\ last_pipeline_interactions' = item.pipeline_interactions
       /\ last_usage_metrics' = item.usage_metrics
       /\ stream_chunks' =
             IF yields_content_chunk(item.response_text)
             THEN Append(stream_chunks,
                         content_chunk(completion_id, item.response_text, item.usage_metrics))
             ELSE stream_chunks
    /\ stream_pos' = stream_pos + 1
    /\ UNCHANGED <<streaming_response_generator, stream_pc, completion_id>>
    /\ UNCHANGED <<loaderVars, besidesStream>>

\* lines 116-132: the generator is exhausted, the final chunk is yielded
to_custom_model_streaming_response_final ==
    /\ stream_pc = "loop"
    /\ stream_pos = Len(streaming_response_generator)
    /\ stream_chunks' = Append(stream_chunks,
           final_chunk(completion_id, last_usage_metrics, last_pipeline_interactions))
    /\ stream_pc' = "done"
    /\ UNCHANGED <<streaming_response_generator, stream_pos, completion_id,
                   last_pipeline_interactions, last_usage_metrics>>
    /\ UNCHANGED <<loaderVars, besidesStream>>

StreamIdle ==
    /\ streaming_response_generator = <<>>
    /\ stream_pos = 0
    /\ stream_pc = "idle"
    /\ completion_id = "none"
    /\ last_pipeline_interactions = "None"
    /\ last_usage_metrics = "None"
    /\ stream_chunks = <<>>

StreamStart ==
    /\ streaming_response_generator \in
          UNION {[1..n -> StreamItems] : n \in 0..MaxItems}
    /\ stream_pos = 0
    /\ stream_pc = "created"
    /\ completion_id = "none"
    /\ last_pipeline_interactions = "None"
    /\ last_usage_metrics = "None"
    /\ stream_chunks = <<>>

StreamSteps ==
    \/ to_custom_model_streaming_response_begin
    \/ to_custom_model_streaming_response_item
    \/ to_custom_model_streaming_response_final

(***************************************************************************)
(* retry_on_integrity_error                                                *)
(* src/web/app/db.py, lines 98-129                                         *)
(***************************************************************************)
MaxRetryCount == 5
MaxAttempts == 8

\* retry_count values a caller passes to the decorator
RetryCountChoices == -1..MaxRetryCount

\* what one call of the wrapped method does: it returns a value, raises
\* IntegrityError, or raises some other exception
MethodOutcomes == {"row1", "row2", "IntegrityError", "OtherError"}

\* line 126: if attempt == retry_count
gives_up(n, count) == n = count

\* lines 113-119: the decorator rejects a negative retry_count; otherwise
\* inner is called, enters the session and sets attempt = 0
retry_on_integrity_error_inner ==
    /\ retry_pc = "decorating"
    /\ IF retry_count < 0
       THEN retry_pc' = "rejected" /\ retry_exc' = "ValueError"
       ELSE retry_pc' = "loop" /\ UNCHANGED retry_exc
    /\ attempt' = 0
    /\ UNCHANGED <<retry_count, retry_invocations, retry_rollbacks, retry_result>>
    /\ UNCHANGED <<loaderVars, besidesRetry>>

\* lines 120-123: attempt += 1 and the wrapped method is awaited; a value is
\* returned, an exception that is not IntegrityError propagates
retry_on_integrity_error_attempt ==
    /\ retry_pc = "loop"
    /\ attempt < MaxAttempts
    /\ attempt' = attempt + 1
    /\ retry_invocations' = retry_invocations + 1
    /\ \E outcome \in MethodOutcomes :
          IF outcome = "IntegrityError"
          THEN retry_pc' = "except" /\ UNCHANGED <<retry_result, retry_exc>>
          ELSE IF outcome = "OtherError"
          THEN retry_pc' = "raised" /\ retry_exc' = outcome /\ UNCHANGED retry_result
          ELSE retry_pc' = "returned" /\ retry_result' = outcome /\ UNCHANGED retry_exc
    /\ UNCHANGED <<retry_count, retry_rollbacks>>
    /\ UNCHANGED <<loaderVars, besidesRetry>>

\* lines 124-127: the session is rolled back, and the error re-raised when
\* attempt equals retry_count
retry_on_integrity_error_except ==
    /\ retry_pc = "except"
    /\ retry_rollbacks' = retry_rollbacks + 1
    /\ IF gives_up(attempt, retry_count)
       THEN retry_pc' = "raised" /\ retry_exc' = "IntegrityError"
       ELSE retry_pc' = "loop" /\ UNCHANGED retry_exc
    /\ UNCHANGED <<retry_count, attempt, retry_invocations, retry_result>>
    /\ UNCHANGED <<loaderVars, besidesRetry>>

RetryIdle ==
    /\ retry_count = 0
    /\ retry_pc = "idle"
    /\ attempt = 0
    /\ retry_invocations = 0
    /\ retry_rollbacks = 0
    /\ retry_result = "none"
    /\ retry_exc = "none"

RetryStart ==
    /\ retry_count \in RetryCountChoices
    /\ retry_pc = "decorating"
    /\ attempt = 0
    /\ retry_invocations = 0
    /\ retry_rollbacks = 0
    /\ retry_result = "none"
    /\ retry_exc = "none"

RetrySteps ==
    \/ retry_on_integrity_error_inner
    \/ retry_on_integrity_error_attempt
    \/ retry_on_integrity_error_except

(***************************************************************************)
(* The chat completion background task                                     *)
(* src/web/app/api/v1/chat.py, lines 256-410                               *)
(***************************************************************************)
MaxRequests == 2

Requests == 1..MaxRequests

NoOutcome == [kind |-> "none", type |-> "none", text |-> "none"]

\* what _send_chat_agent_completion meets before its update_message: a
\* completion with content or with content None, or an exception raised by
\* request_data["message"], initialize_deployment, get_access_token or
\* client.chat.completions.create
CompletionOutcomes ==
    {[kind |-> "completion", type |-> "ChatCompletion", text |-> "answer"],
     [kind |-> "completion", type |-> "ChatCompletion", text |-> "None"],
     [kind |-> "exception", type |-> "ValueError", text |-> "Unable to load Deployment ID."],
     [kind |-> "exception", type |-> "APITimeoutError", text |-> "Request timed out."],
     [kind |-> "exception", type |-> "RuntimeError", text |-> ""]}

\* str(e): the message text of the exception
str(exc) == exc.text

\* MessageRepository.create_message: the new row gets the next uuid
create_message(table, message_create) ==
    Append(table, [uuid |-> Len(table) + 1] @@ message_create)

\* MessageRepository.update_message: the fields set in the update replace
\* those of the row with that uuid
update_message(table, uuid, update) ==
    [table EXCEPT ![uuid] =
        [f \in DOMAIN @ |-> IF f \in DOMAIN update THEN update[f] ELSE @[f]]]

\* line 406: completion.choices[0].message.content or ""
llm_message_content(completion) == IF completion.text = "None" THEN "" ELSE completion.text

\* an except clause whose update records the error and nothing else
error_update_without_progress(exc) == [error |-> str(exc)]

\* line 335: MessageUpdate(in_progress=False, error=str(e))
error_update(exc) == [in_progress |-> FALSE, error |-> str(exc)]

\* lines 407-410: MessageUpdate(content=llm_message_content, in_progress=False)
completion_update(completion) ==
    [content |-> llm_message_content(completion), in_progress |-> FALSE]

\* lines 293-303: the prompt message of the exchange
_create_new_message_exchange_prompt(r) ==
    /\ chat_pc[r] = "request"
    /\ chat_messages' = create_message(chat_messages,
           [role |-> "user", content |-> "question", in_progress |-> FALSE,
            error |-> "None"])
    /\ chat_pc' = [chat_pc EXCEPT ![r] = "prompt_created"]
    /\ UNCHANGED <<chat_response_uuid, chat_outcome, chat_task_exc>>
    /\ UNCHANGED <<loaderVars, besidesChat>>

\* lines 305-317: the response message, created in progress
_create_new_message_exchange_response(r) ==
    /\ chat_pc[r] = "prompt_created"
    /\ chat_messages' = create_message(chat_messages,
           [role |-> "assistant", content |-> "", in_progress |-> TRUE,
            error |-> "None"])
    /\ chat_response_uuid' = [chat_response_uuid EXCEPT ![r] = Len(chat_messages')]
    /\ chat_pc' = [chat_pc EXCEPT ![r] = "exchange_created"]
    /\ UNCHANGED <<chat_outcome, chat_task_exc>>
    /\ UNCHANGED <<loaderVars, besidesChat>>

\* lines 279-284: the safe completion task is queued and the handler returns
create_chat_messages_add_task(r) ==
    /\ chat_pc[r] = "exchange_created"
    /\ chat_pc' = [chat_pc EXCEPT ![r] = "task_added"]
    /\ UNCHANGED <<chat_messages, chat_response_uuid, chat_outcome, chat_task_exc>>
    /\ UNCHANGED <<loaderVars, besidesChat>>

\* lines 348-406: the task runs _send_chat_agent_completion inside
\* _update_message_on_exception, up to the completion or to an exception
_send_chat_agent_completion_create(r) ==
    /\ chat_pc[r] = "task_added"
    /\ \E outcome \in CompletionOutcomes :
          /\ chat_outcome' = [chat_outcome EXCEPT ![r] = outcome]
          /\ chat_pc' = [chat_pc EXCEPT ![r] =
                IF outcome.kind = "completion" THEN "completed" ELSE "except"]
    /\ UNCHANGED <<chat_messages, chat_response_uuid, chat_task_exc>>
    /\ UNCHANGED <<loaderVars, besidesChat>>

\* lines 406-410: the response message is updated with the completion
_send_chat_agent_completion_update(r) ==
    /\ chat_pc[r] = "completed"
    /\ chat_messages' = update_message(chat_messages, chat_response_uuid[r],
                                       completion_update(chat_outcome[r]))
    /\ chat_pc' = [chat_pc EXCEPT ![r] = "done"]
    /\ UNCHANGED <<chat_response_uuid, chat_outcome, chat_task_exc>>
    /\ UNCHANGED <<loaderVars, besidesChat>>

\* lines 332-339: the except clause updates the message and swallows the error
_update_message_on_exception_except(r) ==
    /\ chat_pc[r] = "except"
    /\ chat_messages' = update_message(chat_messages, chat_response_uuid[r],
                                       error_update(chat_outcome[r]))
    /\ chat_pc' = [chat_pc EXCEPT ![r] = "done"]
    /\ UNCHANGED <<chat_response_uuid, chat_outcome, chat_task_exc>>
    /\ UNCHANGED <<loaderVars, besidesChat>>

ChatIdle ==
    /\ chat_messages = <<>>
    /\ chat_pc = [r \in Requests |-> "idle"]
    /\ chat_response_uuid = [r \in Requests |-> 0]
    /\ chat_outcome = [r \in Requests |-> NoOutcome]
    /\ chat_task_exc = [r \in Requests |-> "none"]

\* some of the requests are posted
ChatStart ==
    /\ chat_messages = <<>>
    /\ chat_pc \in [Requests -> {"idle", "request"}]
    /\ chat_response_uuid = [r \in Requests |-> 0]
    /\ chat_outcome = [r \in Requests |-> NoOutcome]
    /\ chat_task_exc = [r \in Requests |-> "none"]

ChatSteps ==
    \E r \in Requests :
       \/ _create_new_message_exchange_prompt(r)
       \/ _create_new_message_exchange_response(r)
       \/ create_chat_messages_add_task(r)
       \/ _send_chat_agent_completion_create(r)
       \/ _send_chat_agent_completion_update(r)
       \/ _update_message_on_exception_except(r)

(***************************************************************************)
(* DBCtx.session with persistent storage                                   *)
(* src/web/app/db.py, lines 62-75                                          *)
(***************************************************************************)
MaxSessions == 3

Sessions == 1..MaxSessions

\* calculate_checksum: a digest of the file's content
calculate_checksum(rows) == <<"checksum", rows>>

\* line 66: persistence_fs.get copies the persistent file over the local one
persistence_fs_get(persistent, local) == persistent.rows

\* line 75: persistence_fs.put copies the local file over the persistent one
persistence_fs_put(local) == [exists |-> TRUE, rows |-> local]

\* lines 64-67: the block is entered; an existing persistent copy is
\* downloaded over the local file and its checksum taken
session_enter(k) ==
    /\ sess_pc[k] = "start"
    /\ IF db_persistent.exists
       THEN /\ db_local' = persistence_fs_get(db_persistent, db_local)
            /\ sess_checksum' = [sess_checksum EXCEPT ![k] = calculate_checksum(db_local')]
       ELSE UNCHANGED <<db_local, sess_checksum>>
    /\ sess_pc' = [sess_pc EXCEPT ![k] = "body"]
    /\ UNCHANGED <<db_persistent, sess_committed, sess_put>>
    /\ UNCHANGED <<loaderVars, besidesDb>>

\* lines 69-70: the body of the block commits a row of its own
session_body_commit(k) ==
    /\ sess_pc[k] = "body"
    /\ db_local' = db_local \cup {k}
    /\ sess_committed' = [sess_committed EXCEPT ![k] = TRUE]
    /\ sess_pc' = [sess_pc EXCEPT ![k] = "exiting"]
    /\ UNCHANGED <<db_persistent, sess_checksum, sess_put>>
    /\ UNCHANGED <<loaderVars, besidesDb>>

\* lines 69-70: the body of the block only reads
session_body_read(k) ==
    /\ sess_pc[k] = "body"
    /\ sess_pc' = [sess_pc EXCEPT ![k] = "exiting"]
    /\ UNCHANGED <<db_local, db_persistent, sess_checksum, sess_committed, sess_put>>
    /\ UNCHANGED <<loaderVars, besidesDb>>

\* lines 72-75: on normal exit the file is uploaded when its checksum
\* differs from the one taken at entry
session_exit(k) ==
    /\ sess_pc[k] = "exiting"
    /\ LET new_checksum == calculate_checksum(db_local) IN
       IF new_checksum # sess_checksum[k]
       THEN /\ db_persistent' = persistence_fs_put(db_local)
            /\ sess_put' = [sess_put EXCEPT ![k] = TRUE]
       ELSE UNCHANGED <<db_persistent, sess_put>>
    /\ sess_pc' = [sess_pc EXCEPT ![k] = "done"]
    /\ UNCHANGED <<db_local, sess_checksum, sess_committed>>
    /\ UNCHANGED <<loaderVars, besidesDb>>

DbIdle ==
    /\ db_local = {}
    /\ db_persistent = [exists |-> FALSE, rows |-> {}]
    /\ sess_pc = [k \in Sessions |-> "idle"]
    /\ sess_checksum = [k \in Sessions |-> "None"]
    /\ sess_committed = [k \in Sessions |-> FALSE]
    /\ sess_put = [k \in Sessions |-> FALSE]

\* create_db_ctx has created the empty local file; the persistent copy is
\* absent or as empty as the local file
DbStart ==
    /\ db_local = {}
    /\ db_persistent \in [exists : BOOLEAN, rows : {{}}]
    /\ sess_pc \in [Sessions -> {"idle", "start"}]
    /\ sess_checksum = [k \in Sessions |-> "None"]
    /\ sess_committed = [k \in Sessions |-> FALSE]
    /\ sess_put = [k \in Sessions |-> FALSE]

DbSteps ==
    \E k \in Sessions :
       \/ session_enter(k)
       \/ session_body_commit(k)
       \/ session_body_read(k)
       \/ session_exit(k)

(***************************************************************************)
(* get_auth_ctx for a not-yet-known user                                   *)
(* src/web/app/auth/ctx.py, lines 107-154                                  *)
(* src/web/app/users/identity.py, lines 201-312                            *)
(* every repository call runs in a DBCtx.session block (db.py 62-75)       *)
(***************************************************************************)
MaxAuthRequests == 2

AuthRequests == 1..MaxAuthRequests

EmptyDatabase == [user |-> FALSE, identity |-> FALSE]

\* db.py lines 64-67: entering a session block downloads the persistent
\* copy over the local file when persistence is on and the copy exists
session_download(enabled, persistent, local) ==
    IF enabled /\ persistent.exists THEN persistence_fs_get(persistent, local) ELSE local

\* db.py lines 64-67: checksum is None unless the copy was downloaded
session_entry_checksum(enabled, persistent, local) ==
    IF enabled /\ persistent.exists
    THEN calculate_checksum(session_download(enabled, persistent, local))
    ELSE "None"

\* db.py lines 72-75: leaving a session block uploads the local file when
\* persistence is on and the checksum differs from the one taken at entry
session_upload(enabled, persistent, local, checksum) ==
    IF enabled /\ calculate_checksum(local) # checksum
    THEN persistence_fs_put(local)
    ELSE persistent

AuthGoto(q, label) == auth_pc' = [auth_pc EXCEPT ![q] = label]

AuthRaise(q, exc) ==
    /\ auth_pc' = [auth_pc EXCEPT ![q] = "failed"]
    /\ auth_exc' = [auth_exc EXCEPT ![q] = exc]

\* a session block that only reads: entered, queried and left in one step
AuthReadBlock ==
    /\ auth_local' = session_download(persistence_enabled, auth_persistent, auth_local)
    /\ auth_persistent' =
          session_upload(persistence_enabled, auth_persistent, auth_local',
              session_entry_checksum(persistence_enabled, auth_persistent, auth_local))

\* ctx.py lines 107-113, identity.py lines 210-219: get_by_external_user_id
get_auth_ctx_get_identity(q) ==
    /\ auth_pc[q] = "get_identity"
    /\ AuthReadBlock
    /\ AuthGoto(q, IF auth_local'.identity THEN "reload_user" ELSE "get_user")
    /\ UNCHANGED <<persistence_enabled, auth_checksum, auth_found, auth_exc, auth_sess,
                   users_created>>
    /\ UNCHANGED <<loaderVars, besidesAuth>>

\* ctx.py lines 114-116: user_repo.get_user(email=...)
get_auth_ctx_get_user(q) ==
    /\ auth_pc[q] = "get_user"
    /\ AuthReadBlock
    /\ AuthGoto(q, IF auth_local'.user THEN "upsert_query" ELSE "create_user")
    /\ UNCHANGED <<persistence_enabled, auth_checksum, auth_found, auth_exc, auth_sess,
                   users_created>>
    /\ UNCHANGED <<loaderVars, besidesAuth>>

\* ctx.py lines 117-126: user_repo.create_user enters its session block and
\* commits the insert; a row with that email makes the commit raise
\* IntegrityError
get_auth_ctx_create_user(q) ==
    /\ auth_pc[q] = "create_user"
    /\ LET downloaded == session_download(persistence_enabled, auth_persistent, auth_local) IN
       IF downloaded.user
       THEN /\ auth_local' = downloaded
            /\ AuthGoto(q, "reread_user")
            /\ UNCHANGED <<auth_checksum, users_created>>
       ELSE /\ auth_local' = [downloaded EXCEPT !.user = TRUE]
            /\ users_created' = users_created + 1
            /\ auth_checksum' = [auth_checksum EXCEPT ![q] =
                  session_entry_checksum(persistence_enabled, auth_persistent, auth_local)]
            /\ AuthGoto(q, "create_user_exit")
    /\ UNCHANGED <<persistence_enabled, auth_persistent, auth_found, auth_exc, auth_sess>>
    /\ UNCHANGED <<loaderVars, besidesAuth>>

\* user_repo.create_user leaves its session block
get_auth_ctx_create_user_exit(q) ==
    /\ auth_pc[q] = "create_user_exit"
    /\ auth_persistent' = session_upload(persistence_enabled, auth_persistent, auth_local,
                                         auth_checksum[q])
    /\ AuthGoto(q, "upsert_query")
    /\ UNCHANGED <<persistence_enabled, auth_local, auth_checksum, auth_found, auth_exc,
                   auth_sess, users_created>>
    /\ UNCHANGED <<loaderVars, besidesAuth>>

\* ctx.py lines 126-132: after IntegrityError the user is read again, and
\* the error re-raised when there is still none
get_auth_ctx_reread_user(q) ==
    /\ auth_pc[q] = "reread_user"
    /\ AuthReadBlock
    /\ IF auth_local'.user
       THEN AuthGoto(q, "upsert_query") /\ UNCHANGED auth_exc
       ELSE AuthRaise(q, "IntegrityError")
    /\ UNCHANGED <<persistence_enabled, auth_checksum, auth_found, auth_sess, users_created>>
    /\ UNCHANGED <<loaderVars, besidesAuth>>

\* identity.py lines 238-244: upsert_identity enters its session block and
\* looks for the identity
upsert_identity_query(q) ==
    /\ auth_pc[q] = "upsert_query"
    /\ auth_local' = session_download(persistence_enabled, auth_persistent, auth_local)
    /\ auth_checksum' = [auth_checksum EXCEPT ![q] =
          session_entry_checksum(persistence_enabled, auth_persistent, auth_local)]
    /\ auth_found' = [auth_found EXCEPT ![q] = auth_local'.identity]
    /\ AuthGoto(q, "upsert_commit")
    /\ UNCHANGED <<persistence_enabled, auth_persistent, auth_exc, auth_sess, users_created>>
    /\ UNCHANGED <<loaderVars, besidesAuth>>

\* identity.py lines 246-277: the new identity is inserted, or the found one
\* is given the values it already has; an insert against an existing
\* provider_user_id raises IntegrityError
upsert_identity_commit(q) ==
    /\ auth_pc[q] = "upsert_commit"
    /\ IF ~auth_found[q] /\ auth_local.identity
       THEN AuthGoto(q, "upsert_except") /\ UNCHANGED auth_local
       ELSE /\ auth_local' = IF auth_found[q] THEN auth_local
                             ELSE [auth_local EXCEPT !.identity = TRUE]
            /\ AuthGoto(q, "upsert_refresh")
    /\ UNCHANGED <<persistence_enabled, auth_persistent, auth_checksum, auth_found, auth_exc,
                   auth_sess, users_created>>
    /\ UNCHANGED <<loaderVars, besidesAuth>>

\* identity.py lines 278-279, 307-309: sess.refresh reads the row back; the
\* error of a row that is no longer there leaves the session block through
\* its yield, otherwise the identity is returned and the block left
upsert_identity_refresh(q) ==
    /\ auth_pc[q] = "upsert_refresh"
    /\ IF auth_local.identity
       THEN /\ auth_persistent' = session_upload(persistence_enabled, auth_persistent,
                                                 auth_local, auth_checksum[q])
            /\ AuthGoto(q, "reload_user")
            /\ UNCHANGED auth_exc
       ELSE AuthRaise(q, "InvalidRequestError") /\ UNCHANGED auth_persistent
    /\ UNCHANGED <<persistence_enabled, auth_local, auth_checksum, auth_found, auth_sess,
                   users_created>>
    /\ UNCHANGED <<loaderVars, besidesAuth>>

\* identity.py lines 280-312: rollback, the identity is read again; found,
\* it is updated and committed, otherwise the IntegrityError is re-raised
upsert_identity_except(q) ==
    /\ auth_pc[q] = "upsert_except"
    /\ IF auth_local.identity
       THEN AuthGoto(q, "upsert_refresh") /\ UNCHANGED auth_exc
       ELSE AuthRaise(q, "IntegrityError")
    /\ UNCHANGED <<persistence_enabled, auth_local, auth_persistent, auth_checksum,
                   auth_found, auth_sess, users_created>>
    /\ UNCHANGED <<loaderVars, besidesAuth>>

\* ctx.py lines 148-154: the user of the identity is reloaded and its auth
\* context stored in the session; user is None when the row is not there
get_auth_ctx_reload_user(q) ==
    /\ auth_pc[q] = "reload_user"
    /\ AuthReadBlock
    /\ IF auth_local'.user
       THEN /\ auth_sess' = [auth_sess EXCEPT ![q] = "auth_ctx(user)"]
            /\ AuthGoto(q, "done")
            /\ UNCHANGED auth_exc
       ELSE AuthRaise(q, "AttributeError") /\ UNCHANGED auth_sess
    /\ UNCHANGED <<persistence_enabled, auth_checksum, auth_found, users_created>>
    /\ UNCHANGED <<loaderVars, besidesAuth>>

AuthIdle ==
    /\ persistence_enabled = FALSE
    /\ auth_local = EmptyDatabase
    /\ auth_persistent = [exists |-> FALSE, rows |-> EmptyDatabase]
    /\ auth_pc = [q \in AuthRequests |-> "idle"]
    /\ auth_checksum = [q \in AuthRequests |-> "None"]
    /\ auth_found = [q \in AuthRequests |-> FALSE]
    /\ auth_exc = [q \in AuthRequests |-> "none"]
    /\ auth_sess = [q \in AuthRequests |-> "none"]
    /\ users_created = 0

\* requests of one unknown user arrive at an empty database; persistent
\* storage is on or off, its copy absent or as empty as the local file
AuthStart ==
    /\ persistence_enabled \in BOOLEAN
    /\ auth_local = EmptyDatabase
    /\ auth_persistent \in [exists : BOOLEAN, rows : {EmptyDatabase}]
    /\ ~persistence_enabled => ~auth_persistent.exists
    /\ auth_pc \in [AuthRequests -> {"idle", "get_identity"}]
    /\ auth_checksum = [q \in AuthRequests |-> "None"]
    /\ auth_found = [q \in AuthRequests |-> FALSE]
    /\ auth_exc = [q \in AuthRequests |-> "none"]
    /\ auth_sess = [q \in AuthRequests |-> "none"]
    /\ users_created = 0

AuthSteps ==
    \E q \in AuthRequests :
       \/ get_auth_ctx_get_identity(q)
       \/ get_auth_ctx_get_user(q)
       \/ get_auth_ctx_create_user(q)
       \/ get_auth_ctx_create_user_exit(q)
       \/ get_auth_ctx_reread_user(q)
       \/ upsert_identity_query(q)
       \/ upsert_identity_commit(q)
       \/ upsert_identity_refresh(q)
       \/ upsert_identity_except(q)
       \/ get_auth_ctx_reload_user(q)

AppIdle == KernelIdle /\ StreamIdle /\ RetryIdle /\ ChatIdle /\ DbIdle /\ AuthIdle

vars == <<textVars, imgVars, restVars>>

ExtractorStart(name) ==
    /\ callee = name
    /\ ex_pc = "start"
    /\ page_text = EmptyDict
    /\ ex_exc = "none"

InitPdf == AppIdle /\ SplitIdle /\ BulkIdle /\ ImgIdle /\ RouterIdle /\ ExtractorStart("pdf") /\ PdfStart /\ DocxIdle /\ PptxIdle /\ TxtIdle

NextPdf ==
    \/ PdfSteps
    \/ extract_text_from_pdf_again

SpecPdf == InitPdf /\ [][NextPdf]_vars

InitDocx == AppIdle /\ SplitIdle /\ BulkIdle /\ ImgIdle /\ RouterIdle /\ ExtractorStart("docx") /\ PdfIdle /\ DocxStart /\ PptxIdle /\ TxtIdle

NextDocx == DocxSteps

SpecDocx == InitDocx /\ [][NextDocx]_vars

InitPptx == AppIdle /\ SplitIdle /\ BulkIdle /\ ImgIdle /\ RouterIdle /\ ExtractorStart("pptx") /\ PdfIdle /\ DocxIdle /\ PptxStart /\ TxtIdle

NextPptx == PptxSteps

SpecPptx == InitPptx /\ [][NextPptx]_vars

InitTxt == AppIdle /\ SplitIdle /\ BulkIdle /\ ImgIdle /\ RouterIdle /\ ExtractorStart("txt") /\ PdfIdle /\ DocxIdle /\ PptxIdle /\ TxtStart

NextTxt == TxtSteps

SpecTxt == InitTxt /\ [][NextTxt]_vars

\* convert_document_to_text called on every path, running the extractor it picks
InitRouter ==
    /\ AppIdle
    /\ SplitIdle
    /\ BulkIdle
    /\ ImgIdle
    /\ RouterStart
    /\ callee = "none"
    /\ ex_pc = "idle"
    /\ page_text = EmptyDict
    /\ ex_exc = "none"
    /\ PdfIdle /\ DocxIdle /\ PptxIdle /\ TxtIdle

NextRouter ==
    \/ RouterSteps
    \/ PdfSteps
    \/ DocxSteps
    \/ PptxSteps
    \/ TxtSteps

SpecRouter == InitRouter /\ [][NextRouter]_vars

\* convert_page_to_image called on every path, page number, document and host
InitImage ==
    /\ AppIdle
    /\ SplitIdle
    /\ BulkIdle
    /\ ImgStart
    /\ RouterIdle
    /\ callee = "none"
    /\ ex_pc = "idle"
    /\ page_text = EmptyDict
    /\ ex_exc = "none"
    /\ PdfIdle /\ DocxIdle /\ PptxIdle /\ TxtIdle

NextImage == ImgSteps

SpecImage == InitImage /\ [][NextImage]_vars

IdleText ==
    /\ RouterIdle
    /\ callee = "none"
    /\ ex_pc = "idle"
    /\ page_text = EmptyDict
    /\ ex_exc = "none"
    /\ PdfIdle /\ DocxIdle /\ PptxIdle /\ TxtIdle

\* convert_document_pages_to_images called on every path, document and max_workers
InitBulk == AppIdle /\ SplitIdle /\ BulkStart /\ ImgIdle /\ IdleText

NextBulk == BulkSteps

SpecBulk == InitBulk /\ [][NextBulk]_vars

\* split_text_into_pages called on every content and page size
InitSplit == AppIdle /\ SplitStart /\ BulkIdle /\ ImgIdle /\ IdleText

NextSplit == SplitSteps

SpecSplit == InitSplit /\ [][NextSplit]_vars

\* one call that stages files in a temporary directory: convert_document_to_text
\* on any path, or convert_page_to_image on any path
InitTempDirs ==
    /\ AppIdle
    /\ SplitIdle
    /\ BulkIdle
    /\ callee = "none"
    /\ ex_pc = "idle"
    /\ page_text = EmptyDict
    /\ ex_exc = "none"
    /\ PdfIdle /\ DocxIdle /\ PptxIdle /\ TxtIdle
    /\ \/ RouterStart /\ ImgIdle
       \/ RouterIdle /\ ImgStart

NextTempDirs ==
    \/ NextRouter
    \/ NextImage

SpecTempDirs == InitTempDirs /\ [][NextTempDirs]_vars

\* the steps of the calling thread and of the pool, for the two batch calls
PdfCallerStep ==
    \/ extract_text_from_pdf_begin
    \/ extract_text_from_pdf_submit
    \/ \E i \in 1..MaxPages : extract_text_from_pdf_collect(i)
    \/ extract_text_from_pdf_collected
    \/ extract_text_from_pdf_end

PdfWorkerStep == \E i \in 1..MaxPages : worker_start(i) \/ worker_finish(i)

BulkCallerStep ==
    \/ convert_document_pages_to_images_other
    \/ convert_pdf_to_images_fitz_begin
    \/ \E i \in 1..MaxPages : convert_pdf_to_images_fitz_collect(i)
    \/ convert_pdf_to_images_fitz_collected
    \/ convert_pdf_to_images_fitz_end
    \/ convert_document_pages_to_images_return

BulkWorkerStep ==
    \E i \in 1..MaxPages : process_start(i) \/ process_close(i) \/ process_finish(i)

\* one batch call, extract_text_from_pdf or convert_document_pages_to_images,
\* with a calling thread that keeps running and a pool that keeps running
\* the tasks it was given; nothing is assumed about a pool process dying
InitBatch ==
    /\ AppIdle
    /\ SplitIdle
    /\ ImgIdle
    /\ RouterIdle
    /\ DocxIdle /\ PptxIdle /\ TxtIdle
    /\ \/ ExtractorStart("pdf") /\ PdfStart /\ BulkIdle
       \/ /\ callee = "none"
          /\ ex_pc = "idle"
          /\ page_text = EmptyDict
          /\ ex_exc = "none"
          /\ PdfIdle
          /\ BulkStart

NextBatch ==
    \/ PdfSteps
    \/ BulkSteps

SpecBatch ==
    /\ InitBatch
    /\ [][NextBatch]_vars
    /\ WF_vars(PdfCallerStep)
    /\ WF_vars(PdfWorkerStep)
    /\ WF_vars(BulkCallerStep)
    /\ WF_vars(BulkWorkerStep)


LoaderIdle == SplitIdle /\ BulkIdle /\ ImgIdle /\ IdleText

\* one call of Kernel.await_kernel_execution with any max_wait and any
\* sequence of responses
InitKernel == LoaderIdle /\ KernelStart /\ StreamIdle /\ RetryIdle /\ ChatIdle /\ DbIdle /\ AuthIdle

NextKernel == KernelSteps

SpecKernel == InitKernel /\ [][NextKernel]_vars

\* one full iteration of to_custom_model_streaming_response over any generator
InitStream == LoaderIdle /\ KernelIdle /\ StreamStart /\ RetryIdle /\ ChatIdle /\ DbIdle /\ AuthIdle

NextStream == StreamSteps

SpecStream == InitStream /\ [][NextStream]_vars

\* one decorated method call with any retry_count and any run of outcomes of
\* the wrapped method
InitRetry == LoaderIdle /\ KernelIdle /\ StreamIdle /\ RetryStart /\ ChatIdle /\ DbIdle /\ AuthIdle

NextRetry == RetrySteps

SpecRetry == InitRetry /\ [][NextRetry]_vars

\* concurrent chat requests; the event loop keeps running every handler and
\* every queued background task
InitChat == LoaderIdle /\ KernelIdle /\ StreamIdle /\ RetryIdle /\ ChatStart /\ DbIdle /\ AuthIdle

NextChat == ChatSteps

SpecChat == InitChat /\ [][NextChat]_vars /\ WF_vars(NextChat)

\* session blocks of concurrent requests on one database file
InitDb == LoaderIdle /\ KernelIdle /\ StreamIdle /\ RetryIdle /\ ChatIdle /\ DbStart /\ AuthIdle

NextDb == DbSteps

SpecDb == InitDb /\ [][NextDb]_vars

\* concurrent first requests of one user
InitAuth ==
    LoaderIdle /\ KernelIdle /\ StreamIdle /\ RetryIdle /\ ChatIdle /\ DbIdle /\ AuthStart

NextAuth == AuthSteps

SpecAuth == InitAuth /\ [][NextAuth]_vars

(***************************************************************************)
(* Claims about extract_text_from_pdf.                                     *)
(***************************************************************************)
PdfReturned == callee = "pdf" /\ ex_pc = "returned"
PdfRaised == callee = "pdf" /\ ex_pc = "raised"

\* C1: whenever extract_text_from_pdf returns for a PDF with N pages, the key
\* set of the returned map is exactly {1..N}, and every page whose extraction
\* threw is present with the empty string.
C1_KeysExactlyAllPages ==
    PdfReturned =>
        /\ DOMAIN page_text = 1..Len(pdf_doc.pages)
        /\ \A i \in 1..Len(pdf_doc.pages) :
              pdf_doc.pages[i].throws => page_text[i] = <<>>

C1_Witness ==
    /\ PdfReturned
    /\ Len(pdf_doc.pages) >= 2
    /\ \E i \in 1..Len(pdf_doc.pages) : pdf_doc.pages[i].throws
    /\ \E i \in 1..Len(pdf_doc.pages) : ~pdf_doc.pages[i].throws

\* C2: a call on the same document returns the same page map as the earlier
\* call, whatever max_workers either call was given and in whatever order the
\* page tasks of either call completed.
C2_SameMapOnEveryCall ==
    (PdfReturned /\ history # <<>>) => page_text = history[1]

\* a second call has returned after its tasks were yielded out of page order
\* by a pool of more than one worker, on a document whose pages differ
C2_Witness ==
    /\ PdfReturned
    /\ history # <<>>
    /\ actual_workers >= 2
    /\ Len(yielded) >= 2
    /\ yielded[1] > yielded[2]
    /\ page_text[1] # page_text[2]

\* C3: a page whose extraction throws never makes the call raise (the call
\* raises only when the document cannot be opened or the pool cannot be
\* created), every finished task carries the result of its own page only, and
\* in the returned map a throwing page is "" while every other page has the
\* text of that page, independent of which other pages threw.
PageOutcome(page) == IF page.throws THEN <<>> ELSE page.text

C3_PageFailureIsolated ==
    /\ PdfRaised => ex_exc \in {"FileDataError", "ValueError"}
    /\ callee = "pdf" =>
          \A i \in Finished :
              /\ ~futures[i].result.raised
              /\ futures[i].result.text = PageOutcome(pdf_doc.pages[futures[i].page_idx + 1])
    /\ PdfReturned =>
          \A i \in 1..Len(pdf_doc.pages) :
              /\ i \in DOMAIN page_text
              /\ page_text[i] = PageOutcome(pdf_doc.pages[i])

C3_Witness ==
    /\ PdfReturned
    /\ \E i, j \in 1..Len(pdf_doc.pages) :
          /\ pdf_doc.pages[i].throws
          /\ page_text[i] = <<>>
          /\ ~pdf_doc.pages[j].throws
          /\ page_text[j] = <<"b">>

(***************************************************************************)
(* Claims about the plain-text, DOCX and PPTX extractors.                  *)
(***************************************************************************)
TxtReturned == callee = "txt" /\ ex_pc = "returned"
DocxReturned == callee = "docx" /\ ex_pc = "returned"
PptxReturned == callee = "pptx" /\ ex_pc = "returned"

\* C5: the map extract_text_from_txt returns has the key set {1..k}, k the
\* number of pages that survive the blank-page filter (no gap is left by a
\* page that was filtered out).
C5_DenseNumbering ==
    TxtReturned => DOMAIN page_text = 1..Cardinality(DOMAIN page_text)

\* the texts accumulated between page breaks, in document order
RECURSIVE C6_SegmentTexts(_, _)
C6_SegmentTexts(paras, cur) ==
    IF paras = <<>> THEN <<cur>>
    ELSE IF is_page_break(Head(paras))
         THEN <<cur>> \o C6_SegmentTexts(Tail(paras), <<>>)
         ELSE C6_SegmentTexts(Tail(paras), cur \o Head(paras).text \o <<"\n">>)

C6_IsNotBlank(t) == Strip(t) # <<>>

C6_KeptSegments(doc) == SelectSeq(C6_SegmentTexts(doc, <<>>), C6_IsNotBlank)

C6_BreakCount(doc) == Cardinality({i \in 1..Len(doc) : is_page_break(doc[i])})

\* C6: for a document with k page-break paragraphs extract_text_from_docx
\* returns m <= k + 1 pages with keys exactly {1..m}; page i is the stripped
\* text of the i-th non-blank segment in document order, so every value is
\* non-empty and stripped and blank segments leave neither a page nor a gap.
C6_DocxPagesDense ==
    DocxReturned =>
        LET kept == C6_KeptSegments(docx_doc)
            m == Cardinality(DOMAIN page_text) IN
        /\ DOMAIN page_text = 1..m
        /\ m <= C6_BreakCount(docx_doc) + 1
        /\ m = Len(kept)
        /\ \A i \in 1..m :
              /\ page_text[i] # <<>>
              /\ Strip(page_text[i]) = page_text[i]
              /\ page_text[i] = Strip(kept[i])

\* text, two consecutive page breaks, text: two pages and no gap
C6_Witness ==
    /\ DocxReturned
    /\ Len(docx_doc) = 4
    /\ ~is_page_break(docx_doc[1])
    /\ is_page_break(docx_doc[2])
    /\ is_page_break(docx_doc[3])
    /\ ~is_page_break(docx_doc[4])
    /\ DOMAIN page_text = {1, 2}
    /\ page_text[1] # page_text[2]

\* C7: once the paragraph loop has passed a paragraph whose text is a form
\* feed, the text accumulated before it has been flushed: nothing non-blank
\* is left in current_text.
C7_FormFeedIsBoundary ==
    (/\ callee = "docx"
     /\ ex_pc = "loop"
     /\ para_idx > 1
     /\ para_idx <= Len(docx_doc) + 1
     /\ docx_doc[para_idx - 1].text = <<"\f">>)
        => Strip(current_text) = <<>>

\* the texts of the text-bearing shapes of a slide
C8_Texts(shapes) ==
    SelectSeq([i \in 1..Len(shapes) |-> shapes[i].text], LAMBDA t : t # <<>>)

\* C8: for a presentation with S slides extract_text_from_pptx returns keys
\* exactly {1..S}; slide i maps to the newline-joined texts of its shapes,
\* and to the empty string when no shape of the slide bears text.
C8_PptxKeysAreSlides ==
    PptxReturned =>
        /\ DOMAIN page_text = 1..Len(presentation)
        /\ \A i \in 1..Len(presentation) :
              /\ page_text[i] = Join(C8_Texts(presentation[i]), <<"\n">>)
              /\ C8_Texts(presentation[i]) = <<>> => page_text[i] = <<>>

C8_Witness ==
    /\ PptxReturned
    /\ Len(presentation) = 3
    /\ C8_Texts(presentation[1]) # <<>>
    /\ C8_Texts(presentation[2]) = <<>>
    /\ page_text[2] = <<>>
    /\ Len(C8_Texts(presentation[3])) = 2

(***************************************************************************)
(* Claims about convert_document_to_text.                                  *)
(***************************************************************************)
RouterReturned == r_pc = "returned"
RouterRaised == r_pc = "raised"
RouterDone == RouterReturned \/ RouterRaised

\* the extension of the path, case folded
C4_Ext == LStripDots(Lower(document_path.suffix))

C9_AllOrNothing ==
    (RouterDone /\ callee \in {"docx", "pptx", "txt"}) =>
        /\ ex_exc # "none" =>
              /\ RouterRaised
              /\ r_exc = ex_exc
              /\ r_result = EmptyDict
        /\ RouterReturned =>
              /\ ex_exc = "none"
              /\ callee = "docx" =>
                    /\ para_idx = Len(docx_doc) + 1
                    /\ Cardinality(DOMAIN r_result) = Len(C6_KeptSegments(docx_doc))
              /\ callee = "pptx" =>
                    /\ slide_idx = Len(presentation) + 1
                    /\ DOMAIN r_result = 1..Len(presentation)
              /\ callee = "txt" =>
                    r_result = number_pages(
                        split_text_into_pages(content, max_chars_per_page_default))

\* the DOCX extractor failed after it had stored a page; the call raised
C9_Witness ==
    /\ RouterRaised
    /\ callee = "docx"
    /\ r_exc = "DocxError"
    /\ page_text # EmptyDict
    /\ r_result = EmptyDict
    /\ tmpdir = "deleted"


(***************************************************************************)
(* Claims about convert_page_to_image.                                     *)
(***************************************************************************)
ImgReturned == img_pc = "returned"

C10_Results == [i \in 1..Len(img_calls) |-> img_calls[i].result]

C10_FirstNonEmpty ==
    IF \E i \in 1..Len(C10_Results) : C10_Results[i] # <<>>
    THEN C10_Results[CHOOSE i \in 1..Len(C10_Results) :
                        /\ C10_Results[i] # <<>>
                        /\ \A j \in 1..(i - 1) : C10_Results[j] = <<>>]
    ELSE <<>>

ImgRaised == img_pc = "raised"

C12_Fns == {img_calls[i].fn : i \in 1..Len(img_calls)}

\* C12: convert_pptx_slide_to_image never raises; the first thing it runs
\* is the LibreOffice probe, unoconv is probed and used only after that
\* probe found LibreOffice unavailable, and the result is the empty string
\* when neither converter is available, when the conversion subprocess
\* fails, or when the intermediate PDF is not produced.
C12_PptxNeverRaises ==
    (file_ext(img_path) = pptx_ext) =>
        /\ ~ImgRaised
        /\ img_pc # "start" =>
              /\ Len(img_calls) >= 1
              /\ img_calls[1].fn = "libreoffice --version"
        /\ \A i \in 1..Len(img_calls) :
              /\ img_calls[i].fn = "unoconv --version" =>
                    i = 2 /\ img_calls[1].result = "unavailable"
              /\ img_calls[i].fn = "unoconv -f pdf" =>
                    /\ i = 3
                    /\ img_calls[1].result = "unavailable"
                    /\ img_calls[2] = [fn |-> "unoconv --version", result |-> "ok"]
              /\ img_calls[i].fn = "libreoffice --convert-to pdf" =>
                    i = 2 /\ img_calls[1].result = "ok"
        /\ "libreoffice --convert-to pdf" \in C12_Fns => "unoconv --version" \notin C12_Fns
        /\ ImgReturned =>
              /\ (host.libreoffice # "ok" /\ host.unoconv # "ok") => img_result = <<>>
              /\ ~host.convert_ok => img_result = <<>>
              /\ ~host.produced => img_result = <<>>
              /\ img_result # <<>> => "convert_pdf_page_to_image" \in C12_Fns

C12_Witness ==
    /\ ImgReturned
    /\ file_ext(img_path) = pptx_ext
    /\ host.libreoffice = "unavailable"
    /\ host.unoconv = "ok"
    /\ host.convert_ok
    /\ ~host.produced
    /\ Len(img_calls) = 3
    /\ img_result = <<>>

C15_Rasterizable == {pdf_ext, docx_ext, pptx_ext} \cup TEXT_FILE_TYPES

BulkReturned == bulk_pc = "returned"

\* C13: for a .pdf path, whenever the PyMuPDF fast path fails with an
\* exception (the document does not open, the pool cannot be created, a
\* future raises), convert_document_pages_to_images calls the sequential
\* pdf2image path and returns its map.
C13_FallbackOnFastPathFailure ==
    (BulkReturned /\ file_ext(bulk_path) = pdf_ext /\ bulk_fitz_exc # "none") =>
        /\ bulk_calls = <<"convert_pdf_to_images_fitz", "convert_pdf_to_images_pdf2image">>
        /\ bulk_return = convert_pdf_to_images_pdf2image(bulk_doc)

C14_Rendered ==
    {i \in 1..Len(bulk_futures) :
        /\ i \in bulk_yielded
        /\ bulk_futures[i].state = "done"
        /\ bulk_futures[i].result.img_base64 # <<>>}

\* C14: for a PDF with N pages the map built by convert_pdf_to_images_fitz
\* has its keys within 1..N and only non-empty values, at every moment and
\* for every completion order; when the call returns it holds exactly the
\* pages whose task returned an image, each under its own page number, and
\* a page whose rendering failed has no entry.
C14_BulkKeysAndValues ==
    /\ DOMAIN bulk_result \subseteq 1..bulk_doc.n_pages
    /\ \A k \in DOMAIN bulk_result : bulk_result[k] # <<>>
    /\ (bulk_pc \in {"collect", "shutdown", "fitz_done", "returned"}
          /\ bulk_fitz_exc = "none") =>
            /\ DOMAIN bulk_result = C14_Rendered
            /\ \A k \in DOMAIN bulk_result :
                  bulk_result[k] = bulk_futures[k].result.img_base64
    /\ (BulkReturned /\ file_ext(bulk_path) = pdf_ext) => bulk_return = bulk_result

C14_Witness ==
    /\ BulkReturned
    /\ bulk_fitz_exc = "none"
    /\ bulk_doc.n_pages >= 2
    /\ bulk_futures[1].result.img_base64 = <<>>
    /\ DOMAIN bulk_return = {2}

(***************************************************************************)
(* Claims about split_text_into_pages.                                     *)
(***************************************************************************)
SplitReturned == sp_pc = "returned"

C16_MarkersPresent ==
    {k \in 1..Len(page_markers) : Contains(page_markers[k], sp_content)}

C16_ShortUnmarked ==
    /\ SplitReturned
    /\ sp_max_chars = max_chars_per_page_default
    /\ C16_MarkersPresent = {}
    /\ Len(sp_content) < max_chars_per_page_default

\* C16 as stated: content with no page marker and fewer than 3000 characters
\* comes back from split_text_into_pages (default page size) as exactly one
\* page, equal to the whole content.
C16_OnePageWholeContent == C16_ShortUnmarked => sp_pages = <<sp_content>>

RECURSIVE C16_WithoutLeadingBreaks(_)
C16_WithoutLeadingBreaks(s) ==
    IF Len(s) >= 2 /\ SubSeq(s, 1, 2) = <<"\n", "\n">>
    THEN C16_WithoutLeadingBreaks(SubSeq(s, 3, Len(s)))
    ELSE s

\* C16 amended: such content comes back as at most one page, namely the
\* content without its leading blank-line separators ("\n\n"), and as no
\* page when nothing is left; so non-empty content that does not begin with
\* a blank-line separator comes back as exactly one page equal to itself.
C16_OnePageUnlessBlankStart ==
    C16_ShortUnmarked =>
        /\ sp_pages = IF C16_WithoutLeadingBreaks(sp_content) = <<>> THEN <<>>
                      ELSE <<C16_WithoutLeadingBreaks(sp_content)>>
        /\ (sp_content # <<>> /\ C16_WithoutLeadingBreaks(sp_content) = sp_content) =>
              sp_pages = <<sp_content>>

C16_Witness ==
    /\ C16_ShortUnmarked
    /\ sp_content = <<"a", "\n", "\n", "a", "\n">>
    /\ sp_pages = <<sp_content>>

\* C17: when a marker of the list occurs in the content, the content is
\* split on that one marker only: the marker earliest in the list among
\* those that occur, wherever the markers stand in the text; joining the
\* pages with it gives the content back and no page contains it.  The
\* paragraph packing is the result only when no marker occurs.
C17_SplitsOnFirstListedMarker ==
    SplitReturned =>
        IF C16_MarkersPresent # {}
        THEN LET k == CHOOSE m \in C16_MarkersPresent :
                         \A j \in C16_MarkersPresent : m <= j
             IN /\ sp_pages = Split(sp_content, page_markers[k])
                /\ Len(sp_pages) >= 2
                /\ Join(sp_pages, page_markers[k]) = sp_content
                /\ \A p \in 1..Len(sp_pages) : ~Contains(page_markers[k], sp_pages[p])
        ELSE /\ sp_pages = pack_paragraphs(Split(sp_content, <<"\n", "\n">>), 1, <<>>, <<>>,
                                           sp_max_chars)
             /\ \A p \in 1..Len(sp_pages) : sp_pages[p] # <<>>

C17_Witness ==
    /\ SplitReturned
    /\ sp_content = <<"-", "-", "-", "a", "*", "*", "*", "*">>
    /\ sp_pages = << <<"-", "-", "-", "a">>, <<>> >>

C18_Paragraphs == Split(sp_content, <<"\n", "\n">>)

\* C18: without a marker, every page split_text_into_pages returns is at
\* most max_chars_per_page long or is one single paragraph of the content.
C18_PagesWithinLimit ==
    (SplitReturned /\ C16_MarkersPresent = {}) =>
        \A p \in 1..Len(sp_pages) :
            \/ Len(sp_pages[p]) <= sp_max_chars
            \/ \E k \in 1..Len(C18_Paragraphs) : sp_pages[p] = C18_Paragraphs[k]

(***************************************************************************)
(* Claims about temporary directories.                                     *)
(***************************************************************************)
\* C19: the temporary directory of convert_document_to_text and the one of
\* convert_pptx_slide_to_image exist only while the call is inside its with
\* block; once the call has returned or raised, on any exit path, the
\* directory it created has been removed.
C19_TempDirsRemoved ==
    /\ tmpdir = "exists" => r_pc \in {"staged", "extracting"}
    /\ RouterDone => tmpdir # "exists"
    /\ RouterReturned => tmpdir = "deleted"
    /\ (RouterRaised /\ r_exc # check_document(document_path, supported_file_types)) =>
          tmpdir = "deleted"
    /\ img_tmpdir = "exists" => img_pc = "render"
    /\ (ImgReturned \/ ImgRaised) => img_tmpdir # "exists"
    /\ (ImgReturned /\ "convert_pdf_page_to_image" \in C12_Fns
          /\ file_ext(img_path) = pptx_ext) => img_tmpdir = "deleted"

C19_Witness ==
    /\ ImgReturned
    /\ file_ext(img_path) = pptx_ext
    /\ host.libreoffice = "ok"
    /\ ~host.convert_ok
    /\ img_tmpdir = "deleted"
    /\ img_result = <<>>

(***************************************************************************)
(* Claims about the batch calls.                                           *)
(***************************************************************************)
C20_CallEnded ==
    \/ PdfReturned
    \/ PdfRaised
    \/ bulk_pc \in {"fitz_done", "returned"}

C20_NoTaskOutlivesCall ==
    /\ (PdfReturned \/ PdfRaised) =>
          \A i \in 1..Len(futures) : futures[i].state = "done"
    /\ PdfReturned => Len(futures) = page_count
    /\ bulk_pc \in {"fitz_done", "returned"} =>
          \A i \in 1..Len(bulk_futures) : bulk_futures[i].state \in {"done", "broken"}
    /\ (bulk_pc \in {"fitz_done", "returned"} /\ bulk_fitz_exc = "none") =>
          Len(bulk_futures) = bulk_page_count

\* C20: with a calling thread and pool workers that keep being scheduled,
\* extract_text_from_pdf and convert_pdf_to_images_fitz eventually return or
\* raise; whenever either has ended, every page task it submitted has
\* finished, none is pending or running, and a normal return has submitted
\* one task for each page.
C20_BoundedBatch == [](C20_NoTaskOutlivesCall) /\ <>(C20_CallEnded)

C20_Witness ==
    /\ bulk_pc = "fitz_done"
    /\ bulk_fitz_exc = "none"
    /\ bulk_actual_workers = 1
    /\ Len(bulk_futures) >= 2
    /\ \A i \in 1..Len(bulk_futures) : bulk_futures[i].state = "done"

C23_PdfPoolCreated ==
    /\ callee = "pdf"
    /\ ex_pc \in {"submit", "collect", "shutdown", "returned"}

C23_BulkPoolCreated ==
    /\ file_ext(bulk_path) = pdf_ext
    /\ bulk_pc \in {"collect", "shutdown", "fitz_done", "returned"}
    /\ bulk_fitz_exc \notin {"FileDataError", "ValueError"}

\* C23 as stated: the pool created by extract_text_from_pdf and by
\* convert_pdf_to_images_fitz has size min(max_workers, page_count), so it
\* never has more workers than the document has pages.
C23_PoolSizeIsMin ==
    /\ C23_PdfPoolCreated =>
          /\ actual_workers = Min(max_workers, page_count)
          /\ actual_workers <= page_count
    /\ C23_BulkPoolCreated =>
          /\ bulk_actual_workers = Min(bulk_max_workers, bulk_page_count)
          /\ bulk_actual_workers <= bulk_page_count

\* C23 amended: a pool is created exactly for max_workers >= 1; its size is
\* min(max_workers, page_count) for a document with at least one page (never
\* more workers than pages, never zero) and 1 for a document with no page;
\* no more tasks run at once than the pool has workers; for max_workers <= 0
\* no pool is created and no task is submitted.
C23_PoolSizeIsCappedMin ==
    /\ C23_PdfPoolCreated =>
          /\ max_workers >= 1
          /\ actual_workers >= 1
          /\ page_count >= 1 =>
                /\ actual_workers = Min(max_workers, page_count)
                /\ actual_workers <= page_count
          /\ page_count = 0 => actual_workers = 1
          /\ Cardinality(Running) <= actual_workers
    /\ C23_BulkPoolCreated =>
          /\ bulk_max_workers >= 1
          /\ bulk_actual_workers >= 1
          /\ bulk_page_count >= 1 =>
                /\ bulk_actual_workers = Min(bulk_max_workers, bulk_page_count)
                /\ bulk_actual_workers <= bulk_page_count
          /\ bulk_page_count = 0 => bulk_actual_workers = 1
          /\ Cardinality({i \in 1..Len(bulk_futures) :
                            bulk_futures[i].state = "running"}) <= bulk_actual_workers
    /\ (callee = "pdf" /\ ex_pc # "start" /\ max_workers <= 0) =>
          PdfRaised /\ futures = <<>>
    /\ (file_ext(bulk_path) = pdf_ext /\ bulk_pc \notin {"idle", "start"}
          /\ bulk_max_workers <= 0) =>
          bulk_futures = <<>> /\ bulk_fitz_exc \in {"FileDataError", "ValueError"}

C23_Witness ==
    /\ C23_PdfPoolCreated
    /\ max_workers = MaxCallWorkers
    /\ page_count = 2
    /\ actual_workers = 2
    /\ Cardinality(Running) = 2

(***************************************************************************)
(* Claims about the order of the calls of convert_document_to_text.        *)
(***************************************************************************)
C24_ChecksPass ==
    /\ document_path.exists
    /\ C4_Ext \in supported_file_types
    /\ C4_Ext \in DOMAIN FILE_TYPES_TO_EXTRACTORS

C24_CheckErrors ==
    {"FileNotFoundError", "DocProcessorUnsupportedFileTypeError",
     "DocProcessorNoExtractorError"}

C27_HandleOpenWhileRendering ==
    \A i \in 1..Len(bulk_futures) :
        bulk_futures[i].state = "running" => bulk_futures[i].handle = "open"

\* C28: a PDF handle opened by a function of the loader is closed when that
\* function has returned: none is open once convert_page_to_image has
\* returned or raised.
C28_NoHandleLeftOpen == (ImgReturned \/ ImgRaised) => img_handle # "open"

(***************************************************************************)
(* Claims about Kernel.await_kernel_execution.                             *)
(***************************************************************************)
KernelEnded == kernel_pc \in {"returned", "raised"}

C21_Count200 == Cardinality({i \in 1..Len(kernel_statuses) : kernel_statuses[i] = 200})

\* C21: await_kernel_execution makes at most max_wait requests and sleeps
\* once after each 200 response; a response that is not 200 is the last one
\* requested: 404 ends the call normally, any other status ends it with
\* AssertionError; after max_wait responses that were all 200 the call
\* returns normally with exactly max_wait requests and max_wait sleeps.
C21_PollsUntilGoneOrTimeout ==
    /\ Len(kernel_statuses) <= kernel_max_wait
    /\ kernel_sleeps <= C21_Count200
    /\ \A i \in 1..Len(kernel_statuses) :
          kernel_statuses[i] # 200 => i = Len(kernel_statuses)
    /\ KernelEnded =>
          LET n == Len(kernel_statuses)
              last == IF n = 0 THEN 200 ELSE kernel_statuses[n]
          IN /\ kernel_sleeps = C21_Count200
             /\ last = 404 => kernel_pc = "returned" /\ kernel_exc = "none"
             /\ last \notin {200, 404} =>
                   kernel_pc = "raised" /\ kernel_exc = "AssertionError"
             /\ last = 200 =>
                   /\ kernel_pc = "returned" /\ kernel_exc = "none"
                   /\ n = kernel_max_wait
                   /\ kernel_sleeps = kernel_max_wait

\* the timeout case: several polls, all answered 200, and the call returned
C21_Witness ==
    /\ kernel_pc = "returned"
    /\ kernel_max_wait >= 2
    /\ Len(kernel_statuses) = kernel_max_wait
    /\ \A i \in 1..Len(kernel_statuses) : kernel_statuses[i] = 200
    /\ kernel_sleeps = kernel_max_wait

(***************************************************************************)
(* Claims about to_custom_model_streaming_response.                        *)
(***************************************************************************)
StreamDone == stream_pc = "done"

C22_IsNonEmpty(item) == item.response_text # ""

C22_NonEmptyItems == SelectSeq(streaming_response_generator, C22_IsNonEmpty)

\* C22: the stream holds one chunk with finish_reason None per non-empty
\* response text, in generator order and without pipeline_interactions,
\* then exactly one final chunk with finish_reason "stop" and no content,
\* which carries the last pipeline_interactions; all chunks have the same
\* completion id; no "stop" chunk is yielded before the generator is
\* exhausted, and one is yielded even for a generator that yields nothing.
C22_ContentChunksThenOneStop ==
    /\ \A i \in 1..Len(stream_chunks) : \A j \in 1..Len(stream_chunks) :
          stream_chunks[i].id = stream_chunks[j].id
    /\ ~StreamDone =>
          \A i \in 1..Len(stream_chunks) : stream_chunks[i].finish_reason = "None"
    /\ StreamDone =>
          LET n == Len(C22_NonEmptyItems) IN
          /\ Len(stream_chunks) = n + 1
          /\ \A i \in 1..n :
                /\ stream_chunks[i].content = C22_NonEmptyItems[i].response_text
                /\ stream_chunks[i].finish_reason = "None"
                /\ stream_chunks[i].pipeline_interactions = "None"
          /\ stream_chunks[n + 1].finish_reason = "stop"
          /\ stream_chunks[n + 1].content = "None"
          /\ LET m == Len(streaming_response_generator) IN
             stream_chunks[n + 1].pipeline_interactions =
                IF m = 0 THEN "None"
                ELSE model_dump_json_or_none(
                         streaming_response_generator[m].pipeline_interactions)

\* a finished stream over a generator that yielded an empty text between two
\* different texts and ended with pipeline interactions
C22_Witness ==
    /\ StreamDone
    /\ Len(streaming_response_generator) = 3
    /\ streaming_response_generator[1].response_text = "a"
    /\ streaming_response_generator[2].response_text = ""
    /\ streaming_response_generator[3].response_text = "b"
    /\ streaming_response_generator[3].pipeline_interactions # "None"
    /\ Len(stream_chunks) = 3

(***************************************************************************)
(* Claims about retry_on_integrity_error.                                  *)
(***************************************************************************)
\* C25: for every accepted retry_count (>= 0) the wrapped method is invoked
\* at most retry_count + 1 times, the session is rolled back after every
\* failed attempt, a call that ends with IntegrityError has rolled back
\* after each of its attempts, and a call that returned made no attempt
\* after the successful one.
C25_AtMostRetryCountPlusOneAttempts ==
    retry_count >= 0 =>
       /\ retry_invocations <= retry_count + 1
       /\ retry_pc = "loop" => retry_rollbacks = retry_invocations
       /\ (retry_pc = "raised" /\ retry_exc = "IntegrityError") =>
             retry_rollbacks = retry_invocations
       /\ retry_pc = "returned" => retry_rollbacks = retry_invocations - 1

(***************************************************************************)
(* Claims about the chat completion background task.                       *)
(***************************************************************************)
C26_MessageIds == 1..(2 * MaxRequests)

C26_InProgress(uuid) ==
    uuid <= Len(chat_messages) /\ chat_messages[uuid].in_progress

C26_Settled(uuid) ==
    uuid <= Len(chat_messages) /\ ~chat_messages[uuid].in_progress

\* what a finished task has left in its response message
C26_TaskResult ==
    \A r \in Requests :
       /\ chat_task_exc[r] = "none"
       /\ chat_pc[r] = "done" =>
             LET message == chat_messages[chat_response_uuid[r]] IN
             /\ message.role = "assistant"
             /\ ~message.in_progress
             /\ chat_outcome[r].kind = "completion" =>
                   /\ message.content = llm_message_content(chat_outcome[r])
                   /\ message.error = "None"
             /\ chat_outcome[r].kind = "exception" =>
                   /\ message.error = chat_outcome[r].text
                   /\ message.content = ""

C29_CommittedDataPersisted ==
    \A k \in Sessions :
       sess_pc[k] = "done" =>
          /\ sess_committed[k] => (db_persistent.exists /\ k \in db_persistent.rows)
          /\ sess_committed[k] => sess_put[k]

(***************************************************************************)
(* Claims about get_auth_ctx.                                              *)
(***************************************************************************)
\* C30: concurrent first requests of one user create at most one user row,
\* none of them fails, and each that has finished holds the auth context of
\* that user in its session.
C30_RaceAbsorbed ==
    /\ users_created <= 1
    /\ \A q \in AuthRequests :
          /\ auth_pc[q] # "failed"
          /\ auth_pc[q] = "done" => auth_sess[q] = "auth_ctx(user)"

\* the same without persistent storage, where session blocks copy nothing
C30_RaceAbsorbedWithoutPersistence == ~persistence_enabled => C30_RaceAbsorbed

====
